---- MODULE Spec2Model ----
(***************************************************************************)
(* verman: version manager.  A model of                                    *)
(*   - internal/version Manager (InstallWithDist, Use, Uninstall,          *)
(*     GetCurrent, ListInstalled) over the versions directory, the         *)
(*     per-tool `current` alias and the config record;                     *)
(*   - internal/version DownloadWithRetry / downloadOnce;                  *)
(*   - setUserEnvVar, sources findBestMatch and                            *)
(*     ParseVersionAndDistribution, detectForLanguage, extractZip, each    *)
(*     under a specification of its own.                                   *)
(*                                                                         *)
(* Fault branches that the code tests (err != nil ... return) are taken    *)
(* nondeterministically.  Calls whose result the code discards             *)
(* (removeJunction, os.RemoveAll on the install error paths, os.Remove     *)
(* after a checksum mismatch) have their documented effect.                *)
(***************************************************************************)
EXTENDS Integers, Sequences, FiniteSets, TLC

VARIABLES
    fs,        \* versions directory: per tool, the `current` alias and the version directories
    cfg,       \* Manager.Config.Languages (in memory): tool -> CurrentVersion
    disk,      \* config.json as last written by Config.Save
    pc,        \* position of the running Manager call ("idle": no call running)
    call,      \* the call that is running or has last returned
    result,    \* what that call returned ("running" until it returns)
    lastUse    \* history: per tool, the version of the most recent Use that returned nil

VARIABLES
    dl,        \* one DownloadWithRetry call (see DLInit); [pc |-> "off"] when none is modelled
    env,       \* the user environment and setUserEnvVar calls (see EnvInit); else [pc |-> "off"]
    vm,        \* one findBestMatch call (see VMInit); else [pc |-> "off"]
    pvd,       \* one ParseVersionAndDistribution call (see PVDInit); else [pc |-> "off"]
    det,       \* a project tree and one detectForLanguage call (see DetInit); else [pc |-> "off"]
    zip        \* an archive and one extractZip call (see ZipInit); else [pc |-> "off"]

vars == <<fs, cfg, disk, pc, call, result, lastUse, dl, env, vm, pvd, det, zip>>

----------------------------------------------------------------------------
(* Tool descriptors and inputs                                             *)

\* languages.Registry: the tools the manager knows.
Tools == {"java", "mill"}

\* Language names callers pass; "cobol" is not registered.
LangInputs == Tools \cup {"cobol"}

\* config.defaultLanguages: the tools that have an entry in Config.Languages.
ConfigLangs == {"java"}

\* Version strings callers pass to InstallWithDist, and distribution tags.
VersionInputs == {"17", "x"}
DistInputs == {"", "tem"}

\* Source.ValidateVersion: the versions the tool's VersionRegex accepts.
ValidateVersion(version) == version = "17"

\* versionKey := version, or version + "-" + dist  (InstallWithDist)
VersionKey(version, dist) == IF dist = "" THEN version ELSE version \o "-" \o dist

\* Directory names that can appear under <root>/<tool>/.
VersionKeys == {"17", "17-tem"}

\* SourceLanguage.GetDownloadType: "zip" unless the source says otherwise.
DownloadType(l) == IF l = "mill" THEN "file" ELSE "zip"

\* Source.PostInstall: whether the source declares post-install commands.
HasPostInstall(l) == l = "mill"

\* Source.Dependencies: the tools a tool declares it needs (mill needs java).
Dependencies(l) == IF l = "mill" THEN {"java"} ELSE {}

\* Language.EnvVars: the HOME-style variables a tool declares.
EnvVars(l) == IF l = "java" THEN {"JAVA_HOME"} ELSE {}

\* runtime.GOOS of the build.
GOOS == {"windows", "linux"}

NoLink == "<nolink>"
NoDir == "<nodir>"

\* Contents of a version directory that exists:
\*   "payload"    archive extracted / file downloaded, post-install not applied
\*   "installed"  post-install applied: the complete install
\*   "partial"    what a failed os.RemoveAll left behind

----------------------------------------------------------------------------
(* Config                                                                  *)

\* Languages[lang].CurrentVersion, "" when the map has no entry (Go zero value).
ConfigCurrentVersion(c, l) == IF l \in DOMAIN c THEN c[l] ELSE ""

\* Config.SetCurrentVersion, the in-memory update: only for tools with an entry.
SetCurrentVersionMem(c, l, v) == IF l \in DOMAIN c THEN [c EXCEPT ![l] = v] ELSE c

----------------------------------------------------------------------------
(* Filesystem primitives                                                   *)

\* os.Stat(versionPath) succeeds.
VersionDirExists(f, l, v) == l \in Tools /\ v \in VersionKeys /\ f[l].versions[v] # NoDir

\* Manager.ListInstalled: the directories under <root>/<tool>/ other than "current".
ListInstalled(f, l) ==
    IF l \in Tools THEN {v \in VersionKeys : f[l].versions[v] # NoDir} ELSE {}

\* Manager.GetCurrent: the alias target's base name; the config record when the
\* alias cannot be read; "" otherwise.
GetCurrent(f, c, l) ==
    IF l \in Tools /\ f[l].current # NoLink
    THEN f[l].current
    ELSE IF l \in DOMAIN c /\ c[l] # "" THEN c[l] ELSE ""

\* A removal that follows the alias and deletes the target directory as well.
removeJunctionRecursive(f, l) ==
    IF f[l].current # NoLink
    THEN [f EXCEPT ![l].current = NoLink, ![l].versions[f[l].current] = NoDir]
    ELSE f

\* removeJunction: removes the alias only (rmdir / os.Remove on the link).
removeJunction(f, l) ==
    IF f[l].current # NoLink THEN [f EXCEPT ![l].current = NoLink] ELSE f

\* createJunction, success: the alias now points at versionPath.
createJunction(f, l, v) == [f EXCEPT ![l].current = v]

\* os.RemoveAll(versionPath), success.
RemoveAll(f, l, v) == [f EXCEPT ![l].versions[v] = NoDir]

----------------------------------------------------------------------------
(* Calls                                                                   *)

\* global: the `global` argument of Use; warned: Use printed the dependency
\* warning; fetched: InstallWithDist issued its http.Get.
Call(op, l, v, prev, fault) ==
    [op |-> op, lang |-> l, version |-> v, prev |-> prev, fault |-> fault,
     global |-> FALSE, warned |-> FALSE, fetched |-> FALSE]

NoCall == Call("none", "", "", NoLink, "none")

Return(r) == /\ result' = r
             /\ pc' = "idle"

Init ==
    /\ fs = [l \in Tools |-> [current |-> NoLink, versions |-> [v \in VersionKeys |-> NoDir]]]
    /\ cfg = [l \in ConfigLangs |-> ""]
    /\ disk = [l \in ConfigLangs |-> ""]
    /\ pc = "idle"
    /\ call = NoCall
    /\ result = "none"
    /\ lastUse = [l \in Tools |-> ""]
    /\ pvd = [pc |-> "off"]
    /\ det = [pc |-> "off"]
    /\ zip = [pc |-> "off"]
    /\ dl = [pc |-> "off"]
    /\ env = [pc |-> "off"]
    /\ vm = [pc |-> "off"]

----------------------------------------------------------------------------
(* Manager.InstallWithDist                                                 *)

\* The points at which InstallWithDist can fail once the directory is created.
InstallFaults(l) ==
    {"none", "request", "status", "copy"}
        \cup (IF DownloadType(l) = "file" THEN {"create"} ELSE {"tmpfile", "extract"})
        \cup (IF HasPostInstall(l) THEN {"postinstall"} ELSE {})

\* The version directory InstallWithDist leaves behind, from MkdirAll on.
InstallOutcome(l, fault) ==
    IF fault \in {"tmpfile", "request", "status", "create", "copy", "extract"}
    THEN NoDir                      \* os.RemoveAll(versionPath); return err
    ELSE IF fault = "postinstall"
    THEN "payload"                  \* return err, the directory stays
    ELSE "installed"

\* An InstallWithDist that does not look for the version directory.
AlreadyInstalledNever(f, l, key) == FALSE

\* if _, err := os.Stat(versionPath); err == nil
AlreadyInstalled(f, l, key) == VersionDirExists(f, l, key)

\* InstallWithDist reaches its http.Get: past the checks, MkdirAll and, for an
\* archive, os.CreateTemp.
InstallFetches(f, l, version, key, fault) ==
    /\ l \in Tools
    /\ ValidateVersion(version)
    /\ ~AlreadyInstalled(f, l, key)
    /\ fault \notin {"mkdir", "tmpfile"}

InstallWithDist(l, version, dist) ==
    /\ pc = "idle"
    /\ UNCHANGED <<cfg, disk, lastUse, dl, env, vm, pvd, det, zip>>
    /\ LET key == VersionKey(version, dist) IN
       \E fault \in {"none", "mkdir", "tmpfile", "request", "status", "create",
                     "copy", "extract", "postinstall"} :
          /\ call' = [Call("Install", l, key, NoLink, fault)
                         EXCEPT !.fetched = InstallFetches(fs, l, version, key, fault)]
          /\ IF l \notin Tools
             THEN fault = "none" /\ Return("unknown_language") /\ UNCHANGED fs
             ELSE IF ~ValidateVersion(version)
             THEN fault = "none" /\ Return("invalid_version") /\ UNCHANGED fs
             ELSE IF AlreadyInstalled(fs, l, key)
             THEN fault = "none" /\ Return("already_installed") /\ UNCHANGED fs
             ELSE IF fault = "mkdir"
             THEN Return("mkdir_failed") /\ UNCHANGED fs
             ELSE /\ fault \in InstallFaults(l)
                  /\ fs' = [fs EXCEPT ![l].versions[key] = InstallOutcome(l, fault)]
                  /\ Return(IF fault = "none" THEN "ok" ELSE fault \o "_failed")

----------------------------------------------------------------------------
(* Manager.Use, one action per step                                        *)

\* checkAndWarnDependencies: the dependencies it names as missing.  It prints
\* the warning and returns nothing.
checkAndWarnDependencies(f, l) == {d \in Dependencies(l) : ListInstalled(f, d) = {}}

\* A Use that refuses to go on when a dependency is missing.
UseEntryBlocking(f, l, v) ==
    IF l \notin Tools THEN "unknown_language"
    ELSE IF checkAndWarnDependencies(f, l) # {} THEN "dependency_missing"
    ELSE IF ~VersionDirExists(f, l, v) THEN "not_installed"
    ELSE "running"

\* How Use gets to the alias switch: languages.Get, os.Stat(versionPath).
UseEntry(f, l, v) ==
    IF l \notin Tools THEN "unknown_language"
    ELSE IF ~VersionDirExists(f, l, v) THEN "not_installed"
    ELSE "running"

\* The record of a Use call as it starts.
UseCall(f, l, v, global) ==
    [Call("Use", l, v, IF l \in Tools THEN f[l].current ELSE NoLink, "none")
        EXCEPT !.global = global,
               !.warned = l \in Tools /\ checkAndWarnDependencies(f, l) # {}]

\* A Use that skips the os.Stat check.
UseStartUnchecked(l, v, global) ==
    /\ pc = "idle"
    /\ UNCHANGED <<fs, cfg, disk, lastUse, dl, env, vm, pvd, det, zip>>
    /\ call' = UseCall(fs, l, v, global)
    /\ IF l \notin Tools
       THEN Return("unknown_language")
       ELSE /\ result' = "running"
            /\ pc' = "use_remove"

\* languages.Get, checkAndWarnDependencies, os.Stat(versionPath).
UseStart(l, v, global) ==
    /\ pc = "idle"
    /\ UNCHANGED <<fs, cfg, disk, lastUse, dl, env, vm, pvd, det, zip>>
    /\ call' = UseCall(fs, l, v, global)
    /\ IF UseEntry(fs, l, v) = "running"
       THEN /\ result' = "running"
            /\ pc' = "use_remove"
       ELSE Return(UseEntry(fs, l, v))

\* removeJunction(currentPath)
UseRemove ==
    /\ pc = "use_remove"
    /\ fs' = removeJunction(fs, call.lang)
    /\ pc' = "use_create"
    /\ UNCHANGED <<cfg, disk, call, result, lastUse, dl, env, vm, pvd, det, zip>>

\* createJunction(currentPath, versionPath)
UseCreate ==
    /\ pc = "use_create"
    /\ UNCHANGED <<cfg, disk, lastUse, dl, env, vm, pvd, det, zip>>
    /\ \E ok \in BOOLEAN :
          IF ok
          THEN /\ fs' = createJunction(fs, call.lang, call.version)
               /\ pc' = "use_config"
               /\ UNCHANGED <<call, result>>
          ELSE /\ call' = [call EXCEPT !.fault = "junction"]
               /\ Return("junction_failed")
               /\ UNCHANGED fs

\* SetGlobalEnv: TRUE when it returns nil.  setx[e] tells whether the setx
\* command for variable e succeeds.
SetGlobalEnv(goos, l, setx) ==
    IF goos # "windows" THEN FALSE
    ELSE \A e \in EnvVars(l) : setx[e]

\* Config.SetCurrentVersion (with its Save); CreateShims (a failure only
\* warns); with `global`, return SetGlobalEnv's error; else return nil.
\* runtime.GOOS is read by SetGlobalEnv alone, so it is drawn here.
UseConfig ==
    /\ pc = "use_config"
    /\ UNCHANGED <<fs, dl, env, vm, pvd, det, zip>>
    /\ cfg' = SetCurrentVersionMem(cfg, call.lang, call.version)
    /\ \E saved \in BOOLEAN, goos \in GOOS, setx \in [EnvVars(call.lang) -> BOOLEAN] :
          IF call.lang \in DOMAIN cfg /\ ~saved
          THEN /\ call' = [call EXCEPT !.fault = "save"]
               /\ Return("save_failed")
               /\ UNCHANGED <<disk, lastUse>>
          ELSE /\ saved
               /\ disk' = IF call.lang \in DOMAIN cfg THEN cfg' ELSE disk
               /\ IF call.global /\ ~SetGlobalEnv(goos, call.lang, setx)
                  THEN /\ call' = [call EXCEPT !.fault = "env"]
                       /\ Return("env_failed")
                       /\ UNCHANGED lastUse
                  ELSE /\ lastUse' = [lastUse EXCEPT ![call.lang] = call.version]
                       /\ Return("ok")
                       /\ UNCHANGED call

----------------------------------------------------------------------------
(* Manager.Uninstall                                                       *)

Uninstall(l, v) ==
    /\ pc = "idle"
    /\ UNCHANGED <<cfg, disk, lastUse, dl, env, vm, pvd, det, zip>>
    /\ IF ~VersionDirExists(fs, l, v)
       THEN /\ call' = Call("Uninstall", l, v, NoLink, "none")
            /\ Return("not_installed")
            /\ UNCHANGED fs
       ELSE LET f1 == IF GetCurrent(fs, cfg, l) = v THEN removeJunction(fs, l) ELSE fs IN
            \E removed \in BOOLEAN :
               /\ call' = Call("Uninstall", l, v, fs[l].current,
                               IF removed THEN "none" ELSE "removeall")
               /\ IF removed
                  THEN fs' = RemoveAll(f1, l, v) /\ Return("ok")
                  ELSE fs' = [f1 EXCEPT ![l].versions[v] = "partial"]
                       /\ Return("removeall_failed")

----------------------------------------------------------------------------
\* The calls of one session: installs, uninstalls, and Use without `global`
\* (SpecUse below runs Use with either scope).
Next ==
    \/ \E l \in LangInputs, version \in VersionInputs, dist \in DistInputs :
          InstallWithDist(l, version, dist)
    \/ \E l \in LangInputs, v \in VersionKeys : UseStart(l, v, FALSE)
    \/ UseRemove
    \/ UseCreate
    \/ UseConfig
    \/ \E l \in LangInputs, v \in VersionKeys : Uninstall(l, v)

Spec == Init /\ [][Next]_vars

----------------------------------------------------------------------------
(* A run restricted to Use calls, of either scope, from any set of         *)
(* completed installs                                                      *)

InitUse ==
    /\ fs \in [Tools -> [current : {NoLink}, versions : [VersionKeys -> {NoDir, "installed"}]]]
    /\ cfg = [l \in ConfigLangs |-> ""]
    /\ disk = [l \in ConfigLangs |-> ""]
    /\ pc = "idle"
    /\ call = NoCall
    /\ result = "none"
    /\ lastUse = [l \in Tools |-> ""]
    /\ pvd = [pc |-> "off"]
    /\ det = [pc |-> "off"]
    /\ zip = [pc |-> "off"]
    /\ dl = [pc |-> "off"]
    /\ env = [pc |-> "off"]
    /\ vm = [pc |-> "off"]

NextUse ==
    \/ \E l \in LangInputs, v \in VersionKeys, global \in BOOLEAN : UseStart(l, v, global)
    \/ UseRemove
    \/ UseCreate
    \/ UseConfig

SpecUse == InitUse /\ [][NextUse]_vars

----------------------------------------------------------------------------
(* Strings, as sequences of characters                                     *)

MaxRetriesBound == 2
MaxLen == 2

Digits == <<"0", "1", "2", "3", "4", "5", "6", "7", "8", "9">>

RECURSIVE Itoa(_)
\* %d of a non-negative integer
Itoa(n) == IF n < 10 THEN <<Digits[n + 1]>> ELSE Itoa(n \div 10) \o <<Digits[(n % 10) + 1]>>

\* strings.Contains
Contains(s, sub) ==
    \E i \in 1..(Len(s) - Len(sub) + 1) : SubSeq(s, i, i + Len(sub) - 1) = sub

\* strings.ToLower, on the characters a digest, a version or a
\* distribution tag can hold
LowerChar(c) ==
    CASE c = "A" -> "a" [] c = "B" -> "b" [] c = "X" -> "x" [] c = "T" -> "t"
      [] c = "E" -> "e" [] c = "M" -> "m" [] c = "Z" -> "z" [] c = "U" -> "u"
      [] c = "L" -> "l" [] OTHER -> c
ToLower(s) == [i \in 1..Len(s) |-> LowerChar(s[i])]

\* White space as strings.TrimSpace sees it
IsSpace(c) == c \in {" ", "\n", "\r", "\t"}

RECURSIVE TrimLeft(_)
TrimLeft(s) == IF s # <<>> /\ IsSpace(Head(s)) THEN TrimLeft(Tail(s)) ELSE s

RECURSIVE TrimRight(_)
TrimRight(s) ==
    IF s # <<>> /\ IsSpace(s[Len(s)]) THEN TrimRight(SubSeq(s, 1, Len(s) - 1)) ELSE s

\* strings.TrimSpace
TrimSpace(s) == TrimRight(TrimLeft(s))

StrHTTP == <<"H", "T", "T", "P", " ">>
StrHTTP4 == StrHTTP \o <<"4">>
StrRequestFailed == <<"r", "e", "q", "u", "e", "s", "t", " ", "f", "a", "i", "l", "e", "d", ":", " ">>
StrInterrupted == <<"d", "o", "w", "n", "l", "o", "a", "d", " ", "i", "n", "t", "e", "r",
                    "r", "u", "p", "t", "e", "d", ":", " ">>
StrOpenFailed == <<"f", "a", "i", "l", "e", "d", " ", "t", "o", " ", "o", "p", "e", "n", " ",
                   "f", "i", "l", "e", ":", " ">>
StrMismatch == <<"c", "h", "e", "c", "k", "s", "u", "m", " ", "m", "i", "s", "m", "a", "t", "c", "h">>

\* Texts of transport errors (err.Error() of what client.Do or the body read returns):
\* a bare one, and one that quotes text sent by the peer.
MsgEOF == <<"E", "O", "F">>
MsgQuoted == <<"b", "a", "d", " ", "r", "e", "p", "l", "y", " ", "\"">> \o StrHTTP
                 \o <<"4", "0", "4", "\"">>
NetMsgs == {MsgEOF, MsgQuoted}

----------------------------------------------------------------------------
(* HTTP statuses                                                           *)

StatusOK == 200
StatusPartialContent == 206
StatusRequestedRangeNotSatisfiable == 416
StatusNotFound == 404
StatusRequestTimeout == 408
StatusTooManyRequests == 429
StatusInternalServerError == 500

Statuses == {StatusOK, StatusPartialContent, StatusRequestedRangeNotSatisfiable,
             StatusNotFound, StatusRequestTimeout, StatusTooManyRequests,
             StatusInternalServerError}

----------------------------------------------------------------------------
(* Files and digests                                                       *)

Bytes == {0, 1}
\* The file at DestPath: absent, or present with its bytes.
NoFile == [exists |-> FALSE, data |-> <<>>]
File(data) == [exists |-> TRUE, data |-> data]

\* Every artifact of 1..MaxLen bytes.
Artifacts == UNION {[1..n -> Bytes] : n \in 1..MaxLen}

\* hex.EncodeToString(sha256(data)): an injective lower-case digest of the bytes.
HexDigest(data) == [i \in 1..Len(data) |-> IF data[i] = 0 THEN "a" ELSE "b"]

\* The same digest as a checksum file may spell it: upper case, padded.
SpelledDigest(data) ==
    <<" ">> \o [i \in 1..Len(data) |-> IF data[i] = 0 THEN "A" ELSE "B"] \o <<" ">>

\* calculateSHA256(filePath) of an existing file
calculateSHA256(file) == HexDigest(file.data)

\* verifyChecksum: TRUE when it returns nil
verifyChecksum(file, expected) ==
    ToLower(calculateSHA256(file)) = ToLower(TrimSpace(expected))

\* The artifact with its last byte flipped.
Corrupt(data) == [data EXCEPT ![Len(data)] = 1 - data[Len(data)]]

----------------------------------------------------------------------------
(* isNonRetryableError                                                     *)

isNonRetryableError(err) ==
    IF err = <<>> THEN FALSE
    ELSE IF Contains(err, StrHTTP4)
    THEN ~(Contains(err, StrHTTP \o Itoa(StatusRequestTimeout))
           \/ Contains(err, StrHTTP \o Itoa(StatusTooManyRequests)))
    ELSE FALSE

----------------------------------------------------------------------------
(* The server                                                              *)

\* A reply to one GET: a transport error (net # <<>>), or a status with a body.
Reply(net, code, body) == [net |-> net, code |-> code, body |-> body]

\* The body sent with a status, for a request whose Range starts at `from`.
BodiesFor(code, content, from) ==
    IF code = StatusOK THEN {content, Corrupt(content)}
    ELSE IF code = StatusPartialContent THEN {SubSeq(content, from + 1, Len(content))}
    ELSE {<<>>}

\* What a server of the given kind may answer.
Replies(server, content, from) ==
    IF server = "always500" THEN {Reply(<<>>, StatusInternalServerError, <<>>)}
    ELSE IF server = "always404" THEN {Reply(<<>>, StatusNotFound, <<>>)}
    ELSE {Reply(m, 0, <<>>) : m \in NetMsgs}
           \cup UNION {{Reply(<<>>, c, b) : b \in BodiesFor(c, content, from)} : c \in Statuses}

Servers == {"always500", "always404", "any"}

\* The reply to the request repeated without Range: only a 416 leads to one.
SecondReplies(server, content, r1) ==
    IF r1.net = <<>> /\ r1.code = StatusRequestedRangeNotSatisfiable
    THEN Replies(server, content, 0)
    ELSE {r1}

\* The reply whose body downloadOnce copies, when it gets that far.
Settled(r1, r2) ==
    IF r1.net = <<>> /\ r1.code = StatusRequestedRangeNotSatisfiable THEN r2 ELSE r1

CopiesBody(r1, r2) ==
    /\ Settled(r1, r2).net = <<>>
    /\ Settled(r1, r2).code \in {StatusOK, StatusPartialContent}
    /\ (Settled(r1, r2).code = StatusPartialContent => Settled(r1, r2) = r1)

\* The status codes one attempt saw, in order (none on a transport error).
Answer(r1, r2) ==
    IF r1.net # <<>> THEN <<>>
    ELSE IF r1.code = StatusRequestedRangeNotSatisfiable /\ r2.net = <<>>
    THEN <<r1.code, r2.code>>
    ELSE <<r1.code>>

\* The body copied is the server's artifact: all of it, or all from `from` on.
Intact(content, from, r1, r2) ==
    /\ CopiesBody(r1, r2)
    /\ Settled(r1, r2).body =
          IF Settled(r1, r2).code = StatusPartialContent
          THEN SubSeq(content, from + 1, Len(content))
          ELSE content

\* os.OpenFile succeeds or fails, once a response is settled on.
OpenOutcomes(r1, r2) == IF CopiesBody(r1, r2) THEN BOOLEAN ELSE {TRUE}

\* The copy completes (-1) or fails after `cut` bytes of the body.
CutPoints(r1, r2) ==
    IF CopiesBody(r1, r2) THEN (-1)..(Len(Settled(r1, r2).body) - 1) ELSE {-1}

----------------------------------------------------------------------------
(* downloadOnce                                                            *)

Once(err, file, range, kind, code) ==
    [err |-> err, file |-> file, range |-> range, kind |-> kind, code |-> code]

\* A writer that appends whatever the response was.
WriteBodyAppend(file, existingSize, body, cut) ==
    File(file.data \o (IF cut >= 0 /\ cut < Len(body) THEN SubSeq(body, 1, cut) ELSE body))

\* The file after the body (or its first `cut` bytes, when the copy fails) is
\* written: appended when resuming, else over a truncated file.
WriteBody(file, existingSize, body, cut) ==
    File((IF existingSize > 0 THEN file.data ELSE <<>>)
            \o (IF cut >= 0 /\ cut < Len(body) THEN SubSeq(body, 1, cut) ELSE body))

\* downloadOnce from the response it settled on: OpenFile, DownloadWithProgress.
Transfer(file, existingSize, range, body, openOk, cut) ==
    IF ~openOk
    THEN Once(StrOpenFailed \o MsgEOF, file, range, "file", 0)
    ELSE IF cut >= 0 /\ cut < Len(body)
    THEN Once(StrInterrupted \o MsgEOF, WriteBody(file, existingSize, body, cut),
              range, "interrupted", 0)
    ELSE Once(<<>>, WriteBody(file, existingSize, body, cut), range, "none", 0)

\* downloadOnce: r1 answers the first request (with Range when a file exists),
\* r2 the request repeated without Range after a 416.
downloadOnce(file, r1, r2, openOk, cut) ==
    LET existingSize == IF file.exists THEN Len(file.data) ELSE 0 IN
    IF r1.net # <<>>
    THEN Once(StrRequestFailed \o r1.net, file, existingSize, "network", 0)
    ELSE IF r1.code = StatusOK
    THEN Transfer(file, 0, existingSize, r1.body, openOk, cut)
    ELSE IF r1.code = StatusPartialContent
    THEN Transfer(file, existingSize, existingSize, r1.body, openOk, cut)
    ELSE IF r1.code = StatusRequestedRangeNotSatisfiable
    THEN IF r2.net # <<>>
         THEN Once(StrRequestFailed \o r2.net, file, existingSize, "network", 0)
         ELSE IF r2.code # StatusOK
         THEN Once(StrHTTP \o Itoa(r2.code), file, existingSize, "status", r2.code)
         ELSE Transfer(file, 0, existingSize, r2.body, openOk, cut)
    ELSE Once(StrHTTP \o Itoa(r1.code), file, existingSize, "status", r1.code)

----------------------------------------------------------------------------
(* DownloadWithRetry                                                       *)

\* A loop that stops one attempt early.
LoopContinuesShort(attempt, maxRetries) == attempt < maxRetries

\* for attempt := 0; attempt <= cfg.MaxRetries; attempt++
LoopContinues(attempt, maxRetries) == attempt <= maxRetries

RECURSIVE Pow2(_)
\* 1 << n
Pow2(n) == IF n = 0 THEN 1 ELSE 2 * Pow2(n - 1)

\* A backoff that starts at twice the base delay.
DelayFromAttempt(retryDelay, attempt) == retryDelay * Pow2(attempt)

\* delay := cfg.RetryDelay * time.Duration(1<<(attempt-1))
Delay(retryDelay, attempt) == retryDelay * Pow2(attempt - 1)

\* time.Sleep(delay) at the top of the loop body, for attempt > 0
Sleeps(waits, retryDelay, attempt) ==
    IF attempt > 0 THEN Append(waits, Delay(retryDelay, attempt)) ELSE waits

\* The count in "download failed after %d attempts".
ReportedAttempts(maxRetries) == maxRetries + 1

\* cfg.RetryDelay, in seconds
RetryDelays == {1, 2}

\* A mismatch branch that leaves the file where it is.
AfterMismatchKeep(file) == file

\* _ = os.Remove(cfg.DestPath)
AfterMismatch(file) == NoFile

DLInit ==
    /\ fs = [l \in Tools |-> [current |-> NoLink, versions |-> [v \in VersionKeys |-> NoDir]]]
    /\ cfg = [l \in ConfigLangs |-> ""]
    /\ disk = [l \in ConfigLangs |-> ""]
    /\ pc = "idle"
    /\ call = NoCall
    /\ result = "none"
    /\ lastUse = [l \in Tools |-> ""]
    /\ pvd = [pc |-> "off"]
    /\ det = [pc |-> "off"]
    /\ zip = [pc |-> "off"]
    /\ env = [pc |-> "off"]
    /\ vm = [pc |-> "off"]
    /\ \E content \in Artifacts, maxRetries \in 0..MaxRetriesBound, server \in Servers :
       \E retryDelay \in RetryDelays :
       \E expected \in {<<>>, HexDigest(content), SpelledDigest(content), <<"0">>} :
       \E file \in {NoFile} \cup {File(SubSeq(content, 1, k)) : k \in 1..(Len(content) - 1)} :
          dl = [pc |-> "loop",
                content |-> content,          \* the artifact the server holds
                server |-> server,
                maxRetries |-> maxRetries,    \* cfg.MaxRetries
                retryDelay |-> retryDelay,    \* cfg.RetryDelay
                expected |-> expected,        \* cfg.ExpectedSHA256
                file |-> file,                \* the file at cfg.DestPath
                attempt |-> 0,                \* the loop variable
                lastErr |-> <<>>,
                ok |-> FALSE,                 \* returned (result, nil)
                attempts |-> 0,               \* history: downloadOnce calls made
                mismatches |-> 0,             \* history: attempts that ended in a mismatch
                outcome |-> "none",           \* history: how the last attempt ended
                prevOutcome |-> "none",       \* history: how the one before ended
                range |-> 0,                  \* history: Range offset of the last attempt
                failKind |-> "none",          \* history: the last failure
                failCode |-> 0,
                answer |-> <<>>,              \* history: status codes the last attempt saw
                intact |-> FALSE,             \* history: the body it copied was the artifact
                waits |-> <<>>,               \* history: the delays slept, in order
                reported |-> 0]               \* the attempt count of the error returned

\* One iteration of the loop: downloadOnce, then verify / classify.
DLAttempt ==
    /\ dl.pc = "loop"
    /\ LoopContinues(dl.attempt, dl.maxRetries)
    /\ UNCHANGED <<fs, cfg, disk, pc, call, result, lastUse, env, vm, pvd, det, zip>>
    /\ LET from == IF dl.file.exists THEN Len(dl.file.data) ELSE 0 IN
       \E r1 \in Replies(dl.server, dl.content, from) :
       \E r2 \in SecondReplies(dl.server, dl.content, r1) :
       \E openOk \in OpenOutcomes(r1, r2), cut \in CutPoints(r1, r2) :
          LET once == downloadOnce(dl.file, r1, r2, openOk, cut)
              seen == [dl EXCEPT !.attempts = @ + 1, !.prevOutcome = dl.outcome,
                                 !.range = once.range,
                                 !.answer = Answer(r1, r2),
                                 !.intact = Intact(dl.content, from, r1, r2),
                                 !.waits = Sleeps(dl.waits, dl.retryDelay, dl.attempt)]
          IN
          IF once.err = <<>>
          THEN IF dl.expected # <<>> /\ ~verifyChecksum(once.file, dl.expected)
               THEN dl' = [seen EXCEPT !.file = AfterMismatch(once.file),
                                       !.lastErr = StrMismatch,
                                       !.attempt = @ + 1,
                                       !.mismatches = @ + 1,
                                       !.outcome = "mismatch",
                                       !.failKind = "mismatch", !.failCode = 0]
               ELSE dl' = [seen EXCEPT !.file = once.file, !.pc = "done", !.ok = TRUE,
                                       !.outcome = "ok",
                                       !.failKind = "none", !.failCode = 0]
          ELSE dl' = [seen EXCEPT !.file = once.file,
                                  !.lastErr = once.err,
                                  !.outcome = "error",
                                  !.failKind = once.kind, !.failCode = once.code,
                                  !.pc = IF isNonRetryableError(once.err) THEN "done" ELSE "loop",
                                  !.reported = IF isNonRetryableError(once.err)
                                               THEN ReportedAttempts(dl.maxRetries) ELSE 0,
                                  !.attempt = IF isNonRetryableError(once.err) THEN @ ELSE @ + 1]

\* The loop ran out: return nil, "download failed after N attempts".
DLGiveUp ==
    /\ dl.pc = "loop"
    /\ ~LoopContinues(dl.attempt, dl.maxRetries)
    /\ dl' = [dl EXCEPT !.pc = "done", !.reported = ReportedAttempts(dl.maxRetries)]
    /\ UNCHANGED <<fs, cfg, disk, pc, call, result, lastUse, env, vm, pvd, det, zip>>

DLNext == DLAttempt \/ DLGiveUp

SpecDL == DLInit /\ [][DLNext]_vars

----------------------------------------------------------------------------
(* setUserEnvVar: the user environment and the shell startup files         *)

\* setUserEnvVar calls made in one run.
MaxWrites == 2

\* Variable names and values, as sequences of text pieces; the first name is
\* a prefix of the second.
EnvNames == {<<"JAVA">>, <<"JAVA", "_HOME">>}
EnvValues == {<<"/v/17">>, <<"/v/21">>}

\* key.GetStringValue fails: the variable is not in the user environment.
NoValue == <<>>

\* The persistence methods of the Windows build, in the order of the code.
Methods == <<"registry", "pwsh", "powershell", "setx">>

\* The startup files written: two PowerShell profiles on Windows, one shell
\* profile elsewhere.
StartupFiles(goos) == IF goos = "windows" THEN {1, 2} ELSE {1}

\* marker := fmt.Sprintf("# verman: %s", name)
Marker(name) == <<"# verman: ">> \o name

\* entry := fmt.Sprintf("\n%s\n$env:%s = \"%s\"\n", marker, name, value)
ProfileEntry(name, value) ==
    <<"\n">> \o Marker(name) \o <<"\n", "$env:">> \o name \o <<" = \"">> \o value \o <<"\"\n">>

\* line := fmt.Sprintf("\nexport %s=\"%s\"\n", name, value)
ExportLine(name, value) ==
    <<"\nexport ">> \o name \o <<"=\"">> \o value \o <<"\"\n">>

\* The number of places at which sub occurs in s.
Occurrences(s, sub) ==
    Cardinality({i \in 1..(Len(s) - Len(sub) + 1) : SubSeq(s, i, i + Len(sub) - 1) = sub})

\* The entries a startup file holds for a variable: marker lines of exactly
\* that name on Windows, export statements of that name elsewhere.
EntriesFor(goos, content, name) ==
    IF goos = "windows"
    THEN Occurrences(content, Marker(name) \o <<"\n">>)
    ELSE Occurrences(content, <<"\nexport ">> \o name \o <<"=\"">>)

\* createPowerShellProfileEntry: each profile is skipped when it contains the
\* marker or cannot be opened, else the entry is appended.
createPowerShellProfileEntry(files, name, value, homeOk, opens) ==
    IF ~homeOk THEN files
    ELSE [p \in DOMAIN files |->
            IF Contains(files[p], Marker(name)) THEN files[p]
            ELSE IF ~opens[p] THEN files[p]
            ELSE files[p] \o ProfileEntry(name, value)]

\* A chain that goes on to the next method whatever the earlier ones did.
ShouldTryAlways(method) == TRUE

\* if method == "" { ... }: the guard of methods 2 to 4 (method is "" at the first).
ShouldTry(method) == method = ""

EnvInit ==
    /\ fs = [l \in Tools |-> [current |-> NoLink, versions |-> [v \in VersionKeys |-> NoDir]]]
    /\ cfg = [l \in ConfigLangs |-> ""]
    /\ disk = [l \in ConfigLangs |-> ""]
    /\ pc = "idle"
    /\ call = NoCall
    /\ result = "none"
    /\ lastUse = [l \in Tools |-> ""]
    /\ pvd = [pc |-> "off"]
    /\ det = [pc |-> "off"]
    /\ zip = [pc |-> "off"]
    /\ dl = [pc |-> "off"]
    /\ vm = [pc |-> "off"]
    /\ \E goos \in GOOS :
          env = [pc |-> "idle",
                 goos |-> goos,                                  \* runtime.GOOS
                 reg |-> [n \in EnvNames |-> NoValue],            \* HKCU\Environment
                 files |-> [p \in StartupFiles(goos) |-> <<>>],   \* startup file contents
                 calls |-> 0,
                 name |-> <<>>, value |-> <<>>,                  \* arguments of the call
                 method |-> "",                                  \* var method string
                 tried |-> <<>>,         \* history: the methods attempted, with outcomes
                 ret |-> "none",         \* what the call returned
                 written |-> {}]         \* history: names some call returned nil for

\* setUserEnvVar(name, value) is entered (Windows build).
EnvCall(name, value) ==
    /\ env.pc = "idle" /\ env.goos = "windows"
    /\ env.calls < MaxWrites
    /\ env' = [env EXCEPT !.pc = "try", !.calls = @ + 1, !.name = name, !.value = value,
                          !.method = "", !.tried = <<>>, !.ret = "running"]
    /\ UNCHANGED <<fs, cfg, disk, pc, call, result, lastUse, dl, vm, pvd, det, zip>>

\* The next method of the chain: the write; when it reports success, the
\* read-back through getUserEnvVar and the comparison with value.
EnvTry ==
    /\ env.pc = "try"
    /\ Len(env.tried) < Len(Methods)
    /\ ShouldTry(env.method)
    /\ UNCHANGED <<fs, cfg, disk, pc, call, result, lastUse, dl, vm, pvd, det, zip>>
    /\ \E wrote \in BOOLEAN :
       \E lands \in (IF wrote THEN BOOLEAN ELSE {FALSE}),
          readOk \in (IF wrote THEN BOOLEAN ELSE {FALSE}) :
          LET m == Methods[Len(env.tried) + 1]
              reg1 == IF lands THEN [env.reg EXCEPT ![env.name] = env.value] ELSE env.reg
              verified == wrote /\ readOk /\ reg1[env.name] = env.value
          IN env' = [env EXCEPT !.reg = reg1,
                                !.method = IF verified THEN m ELSE @,
                                !.tried = Append(@, [method |-> m, wrote |-> wrote,
                                                     verified |-> verified])]

\* After the chain: "all methods failed", or os.Setenv,
\* createPowerShellProfileEntry and return nil.
EnvFinish ==
    /\ env.pc = "try"
    /\ ~(Len(env.tried) < Len(Methods) /\ ShouldTry(env.method))
    /\ UNCHANGED <<fs, cfg, disk, pc, call, result, lastUse, dl, vm, pvd, det, zip>>
    /\ IF env.method = ""
       THEN env' = [env EXCEPT !.pc = "idle", !.ret = "error"]
       ELSE \E homeOk \in BOOLEAN, opens \in [StartupFiles(env.goos) -> BOOLEAN] :
               env' = [env EXCEPT !.pc = "idle", !.ret = "nil",
                                  !.written = @ \cup {env.name},
                                  !.files = createPowerShellProfileEntry(
                                                @, env.name, env.value, homeOk, opens)]

\* setUserEnvVar(name, value) of the other builds: append the export
\* statement to the shell profile.
EnvCallUnix(name, value) ==
    /\ env.pc = "idle" /\ env.goos # "windows"
    /\ env.calls < MaxWrites
    /\ UNCHANGED <<fs, cfg, disk, pc, call, result, lastUse, dl, vm, pvd, det, zip>>
    /\ \E homeOk \in BOOLEAN, openOk \in BOOLEAN, writeOk \in BOOLEAN :
          LET seen == [env EXCEPT !.calls = @ + 1, !.name = name, !.value = value,
                                  !.method = "", !.tried = <<>>]
          IN IF homeOk /\ openOk /\ writeOk
             THEN env' = [seen EXCEPT !.ret = "nil",
                                      !.written = @ \cup {name},
                                      !.files[1] = @ \o ExportLine(name, value)]
             ELSE env' = [seen EXCEPT !.ret = "error"]

EnvNext ==
    \/ \E name \in EnvNames, value \in EnvValues : EnvCall(name, value)
    \/ EnvTry
    \/ EnvFinish
    \/ \E name \in EnvNames, value \in EnvValues : EnvCallUnix(name, value)

SpecEnv == EnvInit /\ [][EnvNext]_vars

----------------------------------------------------------------------------
(* sources: findBestMatch                                                  *)

\* The longest list of known versions.
MaxList == 3

\* strings.HasPrefix, HasSuffix, TrimPrefix, TrimSuffix
HasPrefix(s, prefix) == Len(s) >= Len(prefix) /\ SubSeq(s, 1, Len(prefix)) = prefix
HasSuffix(s, suffix) ==
    Len(s) >= Len(suffix) /\ SubSeq(s, Len(s) - Len(suffix) + 1, Len(s)) = suffix
TrimPrefix(s, prefix) == IF HasPrefix(s, prefix) THEN SubSeq(s, Len(prefix) + 1, Len(s)) ELSE s
TrimSuffix(s, suffix) == IF HasSuffix(s, suffix) THEN SubSeq(s, 1, Len(s) - Len(suffix)) ELSE s

RECURSIVE Split(_, _)
\* strings.Split(s, sep) for a one-character separator: at least one part.
Split(s, sep) ==
    IF \E i \in 1..Len(s) : s[i] = sep
    THEN LET i == CHOOSE k \in 1..Len(s) : s[k] = sep /\ \A j \in 1..(k - 1) : s[j] # sep
         IN <<SubSeq(s, 1, i - 1)>> \o Split(SubSeq(s, i + 1, Len(s)), sep)
    ELSE <<s>>

IsDigit(c) == \E i \in 1..Len(Digits) : Digits[i] = c
DigitValue(c) == (CHOOSE i \in 1..Len(Digits) : Digits[i] = c) - 1

RECURSIVE ScanDigits(_, _)
\* The number the leading digits of s spell, after the digits read so far.
ScanDigits(s, acc) ==
    IF s # <<>> /\ IsDigit(Head(s)) THEN ScanDigits(Tail(s), 10 * acc + DigitValue(Head(s)))
    ELSE acc

\* fmt.Sscanf(part, "%d", &n) with n = 0 before: an optional sign and the
\* leading digits; n stays 0 when there are none.
Sscanf(part) ==
    IF part # <<>> /\ Head(part) = "-" THEN 0 - ScanDigits(Tail(part), 0)
    ELSE IF part # <<>> /\ Head(part) = "+" THEN ScanDigits(Tail(part), 0)
    ELSE ScanDigits(part, 0)

RECURSIVE ComparePartsFrom(_, _, _)
\* The loop of compareVersions from component i on.
ComparePartsFrom(aParts, bParts, i) ==
    IF i > Len(aParts) /\ i > Len(bParts) THEN 0
    ELSE LET aNum == IF i <= Len(aParts) THEN Sscanf(aParts[i]) ELSE 0
             bNum == IF i <= Len(bParts) THEN Sscanf(bParts[i]) ELSE 0
         IN IF aNum # bNum THEN aNum - bNum ELSE ComparePartsFrom(aParts, bParts, i + 1)

\* compareVersions: > 0 if a > b, < 0 if a < b, 0 if equal
compareVersions(a, b) == ComparePartsFrom(Split(a, "."), Split(b, "."), 1)

\* isWildcardVersion: ends with .x, .X or .*
isWildcardVersion(v) ==
    HasSuffix(ToLower(v), <<".", "x">>) \/ HasSuffix(ToLower(v), <<".", "*">>)

\* A stripWildcard that knows the lower-case suffix only.
stripWildcardLowerOnly(v) == TrimSuffix(v, <<".", "x">>)

\* stripWildcard: the three TrimSuffix calls, in the order of the code
stripWildcard(v) ==
    TrimSuffix(TrimSuffix(TrimSuffix(v, <<".", "x">>), <<".", "X">>), <<".", "*">>)

\* A heuristic that takes only wildcards for partial versions.
looksLikePartialVersionWildcardOnly(v) == isWildcardVersion(TrimPrefix(v, <<"v">>))

\* A heuristic that takes three components for a partial version too.
looksLikePartialVersionUpToThree(v) ==
    \/ isWildcardVersion(TrimPrefix(v, <<"v">>))
    \/ Len(Split(TrimPrefix(v, <<"v">>), ".")) \in {2, 3}

\* looksLikePartialVersion: a wildcard, or exactly two components
looksLikePartialVersion(v) ==
    \/ isWildcardVersion(TrimPrefix(v, <<"v">>))
    \/ Len(Split(TrimPrefix(v, <<"v">>), ".")) = 2

\* A matcher without the exact-match pass.
TriesExactNever(originalPartial) == FALSE

\* if !isWildcardVersion(originalPartial): the exact-match pass is made
TriesExact(originalPartial) == ~isWildcardVersion(originalPartial)

\* A sort in ascending order.
LessAscending(a, b) == compareVersions(a, b) < 0

\* The less function given to sort.Slice: descending by compareVersions
Less(a, b) == compareVersions(a, b) > 0

RECURSIVE InsertSorted(_, _)
\* One insertion of sort.Slice's insertion sort (the sort it uses below 12
\* elements): x moves left while it is less than its left neighbour.
InsertSorted(sorted, x) ==
    IF sorted # <<>> /\ Less(x, sorted[Len(sorted)])
    THEN InsertSorted(SubSeq(sorted, 1, Len(sorted) - 1), x) \o <<sorted[Len(sorted)]>>
    ELSE sorted \o <<x>>

RECURSIVE SortSlice(_)
\* sort.Slice(matches, less)
SortSlice(matches) ==
    IF matches = <<>> THEN <<>>
    ELSE InsertSorted(SortSlice(SubSeq(matches, 1, Len(matches) - 1)), matches[Len(matches)])

\* What findBestMatch returns: (version, nil) or ("", error).
Found(version) == [version |-> version, err |-> FALSE]
NotFound == [version |-> <<>>, err |-> TRUE]

\* The versions the prefix pass collects, in list order.
PrefixMatches(partial, versions) ==
    LET IsMatch(v) == \/ v = partial
                      \/ HasPrefix(v, partial \o <<".">>)
                      \/ HasPrefix(v, partial \o <<"-">>)
    IN SelectSeq(versions, IsMatch)

\* The versions the major-version pass collects.
MajorMatches(partial, versions) ==
    LET IsMatch(v) == Split(v, ".")[1] = partial
    IN SelectSeq(versions, IsMatch)

findBestMatch(expression, versions) ==
    LET originalPartial == TrimPrefix(expression, <<"v">>)
        partial == stripWildcard(originalPartial)
        matches == IF PrefixMatches(partial, versions) = <<>> /\ ~Contains(partial, <<".">>)
                   THEN MajorMatches(partial, versions)
                   ELSE PrefixMatches(partial, versions)
    IN IF TriesExact(originalPartial) /\ \E i \in 1..Len(versions) : versions[i] = partial
       THEN Found(partial)
       ELSE IF matches = <<>>
       THEN IF looksLikePartialVersion(originalPartial) \/ isWildcardVersion(originalPartial)
            THEN NotFound
            ELSE Found(partial)
       ELSE Found(SortSlice(matches)[1])

\* Known versions, as FetchVersions lists them (a leading "v" already
\* stripped by extractVersion).
KnownVersions ==
    {<<"2">>,
     <<"2", ".", "9">>,
     <<"2", ".", "1", "0">>,
     <<"2", ".", "9", ".", "1">>,
     <<"2", ".", "1", "0", "-", "a">>,
     <<"2", "1">>,
     <<"3", ".", "0", ".", "1">>}

RECURSIVE ListsOf(_)
\* Lists of up to n known versions.
ListsOf(n) ==
    IF n = 0 THEN {<<>>}
    ELSE {Append(l, v) : l \in ListsOf(n - 1), v \in KnownVersions} \cup ListsOf(n - 1)

\* What FetchVersions can return: up to MaxList known versions, in any order,
\* without duplicates (it removes them).
VersionLists ==
    {l \in ListsOf(MaxList) : \A i, j \in 1..Len(l) : i # j => l[i] # l[j]}

\* Version expressions a caller passes.
Expressions ==
    {<<"2">>,
     <<"v", "2">>,
     <<"2", ".", "9">>,
     <<"2", ".", "1", "0">>,
     <<"2", ".", "x">>,
     <<"2", ".", "X">>,
     <<"2", ".", "*">>,
     <<"2", ".", "9", ".", "x">>,
     <<"2", ".", "9", ".", "*">>,
     <<"3">>,
     <<"3", ".", "0">>,
     <<"v", "3", ".", "0">>,
     <<"3", ".", "0", ".", "1">>,
     <<"2", "1">>,
     <<"9">>,
     <<"v", "9">>,
     <<"9", ".", "9">>,
     <<"9", ".", "9", ".", "9">>,
     <<"v", "9", ".", "9", ".", "9">>,
     <<"9", ".", "x">>,
     <<"9", ".", "9", ".", "X">>,
     <<"2", ".", "9", ".", "1">>,
     <<"2", ".", "1", "0", "-", "a">>,
     <<"9", ".", "9", ".", "9", ".", "9">>}

\* The wildcard suffixes.
Wildcards == {<<".", "x">>, <<".", "X">>, <<".", "*">>}

VMInit ==
    /\ fs = [l \in Tools |-> [current |-> NoLink, versions |-> [v \in VersionKeys |-> NoDir]]]
    /\ cfg = [l \in ConfigLangs |-> ""]
    /\ disk = [l \in ConfigLangs |-> ""]
    /\ pc = "idle"
    /\ call = NoCall
    /\ result = "none"
    /\ lastUse = [l \in Tools |-> ""]
    /\ pvd = [pc |-> "off"]
    /\ det = [pc |-> "off"]
    /\ zip = [pc |-> "off"]
    /\ dl = [pc |-> "off"]
    /\ env = [pc |-> "off"]
    /\ \E expression \in Expressions, versions \in VersionLists :
          vm = [pc |-> "call", expression |-> expression, versions |-> versions,
                out |-> NotFound]

\* s.findBestMatch(partial, versions)
VMMatch ==
    /\ vm.pc = "call"
    /\ vm' = [vm EXCEPT !.pc = "done", !.out = findBestMatch(vm.expression, vm.versions)]
    /\ UNCHANGED <<fs, cfg, disk, pc, call, result, lastUse, dl, env, pvd, det, zip>>

VMNext == VMMatch

SpecVM == VMInit /\ [][VMNext]_vars

----------------------------------------------------------------------------
(* sources.ParseVersionAndDistribution                                     *)

\* The longest version string handed to ParseVersionAndDistribution.
MaxVersionLen == 16

RECURSIVE Join(_, _)
\* strings.Join(parts, sep) for a one-character separator
Join(parts, sep) ==
    IF Len(parts) = 0 THEN <<>>
    ELSE IF Len(parts) = 1 THEN parts[1]
    ELSE parts[1] \o <<sep>> \o Join(Tail(parts), sep)

\* strings.EqualFold without case folding (differs on "TEM")
EqualFoldExact(a, b) == a = b

\* strings.EqualFold, on ASCII text
EqualFold(a, b) == ToLower(a) = ToLower(b)

\* The SDKMAN-style distribution suffixes, in the order they are tried.
distSuffixes ==
    <<<<"t", "e", "m">>,
      <<"t", "e", "m", "u", "r", "i", "n">>,
      <<"a", "m", "z", "n">>,
      <<"c", "o", "r", "r", "e", "t", "t", "o">>,
      <<"z", "u", "l", "u">>,
      <<"g", "r", "a", "a", "l">>,
      <<"g", "r", "a", "a", "l", "c", "e">>>>

\* ParseVersionAndDistribution(version): the version and the distribution tag
ParseVersionAndDistribution(version) ==
    LET parts == Split(version, "-")
        lastPart == parts[Len(parts)]
    IN IF Len(parts) >= 2 /\ \E i \in 1..Len(distSuffixes) : EqualFold(lastPart, distSuffixes[i])
       THEN [ver |-> Join(SubSeq(parts, 1, Len(parts) - 1), "-"), dist |-> ToLower(lastPart)]
       ELSE [ver |-> version, dist |-> <<>>]

\* Version strings a caller passes, with and without a distribution suffix.
VersionStrings ==
    {v \in
     {<<>>,
      <<"-", "t", "e", "m">>,
      <<"-", "T", "E", "M">>,
      <<"-", "T", "e", "m">>,
      <<"-", "t", "e", "m", "u", "r", "i", "n">>,
      <<"-", "a", "m", "z", "n">>,
      <<"-", "c", "o", "r", "r", "e", "t", "t", "o">>,
      <<"-", "z", "u", "l", "u">>,
      <<"-", "Z", "U", "L", "U">>,
      <<"-", "g", "r", "a", "a", "l">>,
      <<"-", "g", "r", "a", "a", "l", "c", "e">>,
      <<"-", "u", "n", "k", "n", "o", "w", "n">>,
      <<"-">>,
      <<"-", "t", "e">>,
      <<"-", "t", "e", "m", "x">>,
      <<"-", "t", "e", "m", "-">>,
      <<"-", "x", "t", "e", "m">>,
      <<"-", "t", "e", "m", ".", "1">>,
      <<"2", "1">>,
      <<"2", "1", "-", "t", "e", "m">>,
      <<"2", "1", "-", "T", "E", "M">>,
      <<"2", "1", "-", "T", "e", "m">>,
      <<"2", "1", "-", "t", "e", "m", "u", "r", "i", "n">>,
      <<"2", "1", "-", "a", "m", "z", "n">>,
      <<"2", "1", "-", "c", "o", "r", "r", "e", "t", "t", "o">>,
      <<"2", "1", "-", "z", "u", "l", "u">>,
      <<"2", "1", "-", "Z", "U", "L", "U">>,
      <<"2", "1", "-", "g", "r", "a", "a", "l">>,
      <<"2", "1", "-", "g", "r", "a", "a", "l", "c", "e">>,
      <<"2", "1", "-", "u", "n", "k", "n", "o", "w", "n">>,
      <<"2", "1", "-">>,
      <<"2", "1", "-", "t", "e">>,
      <<"2", "1", "-", "t", "e", "m", "x">>,
      <<"2", "1", "-", "t", "e", "m", "-">>,
      <<"2", "1", "-", "x", "t", "e", "m">>,
      <<"2", "1", "-", "t", "e", "m", ".", "1">>,
      <<"1", "7", ".", "0", ".", "9">>,
      <<"1", "7", ".", "0", ".", "9", "-", "t", "e", "m">>,
      <<"1", "7", ".", "0", ".", "9", "-", "T", "E", "M">>,
      <<"1", "7", ".", "0", ".", "9", "-", "T", "e", "m">>,
      <<"1", "7", ".", "0", ".", "9", "-", "t", "e", "m", "u", "r", "i", "n">>,
      <<"1", "7", ".", "0", ".", "9", "-", "a", "m", "z", "n">>,
      <<"1", "7", ".", "0", ".", "9", "-", "c", "o", "r", "r", "e", "t", "t", "o">>,
      <<"1", "7", ".", "0", ".", "9", "-", "z", "u", "l", "u">>,
      <<"1", "7", ".", "0", ".", "9", "-", "Z", "U", "L", "U">>,
      <<"1", "7", ".", "0", ".", "9", "-", "g", "r", "a", "a", "l">>,
      <<"1", "7", ".", "0", ".", "9", "-", "g", "r", "a", "a", "l", "c", "e">>,
      <<"1", "7", ".", "0", ".", "9", "-", "u", "n", "k", "n", "o", "w", "n">>,
      <<"1", "7", ".", "0", ".", "9", "-">>,
      <<"1", "7", ".", "0", ".", "9", "-", "t", "e">>,
      <<"1", "7", ".", "0", ".", "9", "-", "t", "e", "m", "x">>,
      <<"1", "7", ".", "0", ".", "9", "-", "t", "e", "m", "-">>,
      <<"1", "7", ".", "0", ".", "9", "-", "x", "t", "e", "m">>,
      <<"1", "7", ".", "0", ".", "9", "-", "t", "e", "m", ".", "1">>,
      <<"2", "1", "-", "b", "e", "t", "a">>,
      <<"2", "1", "-", "b", "e", "t", "a", "-", "t", "e", "m">>,
      <<"2", "1", "-", "b", "e", "t", "a", "-", "T", "E", "M">>,
      <<"2", "1", "-", "b", "e", "t", "a", "-", "T", "e", "m">>,
      <<"2", "1", "-", "b", "e", "t", "a", "-", "t", "e", "m", "u", "r", "i", "n">>,
      <<"2", "1", "-", "b", "e", "t", "a", "-", "a", "m", "z", "n">>,
      <<"2", "1", "-", "b", "e", "t", "a", "-", "c", "o", "r", "r", "e", "t", "t", "o">>,
      <<"2", "1", "-", "b", "e", "t", "a", "-", "z", "u", "l", "u">>,
      <<"2", "1", "-", "b", "e", "t", "a", "-", "Z", "U", "L", "U">>,
      <<"2", "1", "-", "b", "e", "t", "a", "-", "g", "r", "a", "a", "l">>,
      <<"2", "1", "-", "b", "e", "t", "a", "-", "g", "r", "a", "a", "l", "c", "e">>,
      <<"2", "1", "-", "b", "e", "t", "a", "-", "u", "n", "k", "n", "o", "w", "n">>,
      <<"2", "1", "-", "b", "e", "t", "a", "-">>,
      <<"2", "1", "-", "b", "e", "t", "a", "-", "t", "e">>,
      <<"2", "1", "-", "b", "e", "t", "a", "-", "t", "e", "m", "x">>,
      <<"2", "1", "-", "b", "e", "t", "a", "-", "t", "e", "m", "-">>,
      <<"2", "1", "-", "b", "e", "t", "a", "-", "x", "t", "e", "m">>,
      <<"2", "1", "-", "b", "e", "t", "a", "-", "t", "e", "m", ".", "1">>,
      <<"2", "1", "-", "t", "e", "m", "-", "t", "e", "m">>,
      <<"2", "1", "-", "t", "e", "m", "-", "T", "E", "M">>,
      <<"2", "1", "-", "t", "e", "m", "-", "T", "e", "m">>,
      <<"2", "1", "-", "t", "e", "m", "-", "t", "e", "m", "u", "r", "i", "n">>,
      <<"2", "1", "-", "t", "e", "m", "-", "a", "m", "z", "n">>,
      <<"2", "1", "-", "t", "e", "m", "-", "c", "o", "r", "r", "e", "t", "t", "o">>,
      <<"2", "1", "-", "t", "e", "m", "-", "z", "u", "l", "u">>,
      <<"2", "1", "-", "t", "e", "m", "-", "Z", "U", "L", "U">>,
      <<"2", "1", "-", "t", "e", "m", "-", "g", "r", "a", "a", "l">>,
      <<"2", "1", "-", "t", "e", "m", "-", "g", "r", "a", "a", "l", "c", "e">>,
      <<"2", "1", "-", "t", "e", "m", "-", "u", "n", "k", "n", "o", "w", "n">>,
      <<"2", "1", "-", "t", "e", "m", "-", "t", "e">>,
      <<"2", "1", "-", "t", "e", "m", "-", "t", "e", "m", "x">>,
      <<"2", "1", "-", "t", "e", "m", "-", "t", "e", "m", "-">>,
      <<"2", "1", "-", "t", "e", "m", "-", "x", "t", "e", "m">>,
      <<"2", "1", "-", "t", "e", "m", "-", "t", "e", "m", ".", "1">>,
      <<"t", "e", "m">>,
      <<"t", "e", "m", "-", "t", "e", "m">>,
      <<"t", "e", "m", "-", "T", "E", "M">>,
      <<"t", "e", "m", "-", "T", "e", "m">>,
      <<"t", "e", "m", "-", "t", "e", "m", "u", "r", "i", "n">>,
      <<"t", "e", "m", "-", "a", "m", "z", "n">>,
      <<"t", "e", "m", "-", "c", "o", "r", "r", "e", "t", "t", "o">>,
      <<"t", "e", "m", "-", "z", "u", "l", "u">>,
      <<"t", "e", "m", "-", "Z", "U", "L", "U">>,
      <<"t", "e", "m", "-", "g", "r", "a", "a", "l">>,
      <<"t", "e", "m", "-", "g", "r", "a", "a", "l", "c", "e">>,
      <<"t", "e", "m", "-", "u", "n", "k", "n", "o", "w", "n">>,
      <<"t", "e", "m", "-">>,
      <<"t", "e", "m", "-", "t", "e">>,
      <<"t", "e", "m", "-", "t", "e", "m", "x">>,
      <<"t", "e", "m", "-", "t", "e", "m", "-">>,
      <<"t", "e", "m", "-", "x", "t", "e", "m">>,
      <<"t", "e", "m", "-", "t", "e", "m", ".", "1">>} : Len(v) <= MaxVersionLen}

PVDInit ==
    /\ fs = [l \in Tools |-> [current |-> NoLink, versions |-> [v \in VersionKeys |-> NoDir]]]
    /\ cfg = [l \in ConfigLangs |-> ""]
    /\ disk = [l \in ConfigLangs |-> ""]
    /\ pc = "idle"
    /\ call = NoCall
    /\ result = "none"
    /\ lastUse = [l \in Tools |-> ""]
    /\ dl = [pc |-> "off"]
    /\ env = [pc |-> "off"]
    /\ vm = [pc |-> "off"]
    /\ det = [pc |-> "off"]
    /\ zip = [pc |-> "off"]
    /\ \E version \in VersionStrings :
          pvd = [pc |-> "call", version |-> version, out |-> [ver |-> <<>>, dist |-> <<>>]]

\* ver, dist := ParseVersionAndDistribution(version)
PVDParse ==
    /\ pvd.pc = "call"
    /\ pvd' = [pvd EXCEPT !.pc = "done", !.out = ParseVersionAndDistribution(pvd.version)]
    /\ UNCHANGED <<fs, cfg, disk, pc, call, result, lastUse, dl, env, vm, det, zip>>

PVDNext == PVDParse

SpecPVD == PVDInit /\ [][PVDNext]_vars

----------------------------------------------------------------------------
(* version: detectForLanguage, readVersionFile                             *)

\* The deepest start directory: directory 1 is the filesystem root and
\* directory d + 1 is a child of directory d.
MaxDepth == 3

\* The tools detection is run for, and their declaration-file names in the
\* declared order.
DetectTools == {"java", "go"}
VersionFiles(l) ==
    CASE l = "java" -> <<".java-version", ".sdkmanrc">>
      [] l = "go" -> <<".go-version", "go.mod">>

\* filepath.Dir(currentDir): the root is its own parent
Dir(d) == IF d = 1 THEN 1 ELSE d - 1

\* filepath.Join(currentDir, versionFile)
FilePath(d, versionFile) == [dir |-> d, name |-> versionFile]

\* strings.Index(s, sub) for a one-character sub, counted from 0; -1 if absent
Index(s, c) ==
    IF \E i \in 1..Len(s) : s[i] = c
    THEN (CHOOSE i \in 1..Len(s) : s[i] = c /\ \A j \in 1..(i - 1) : s[j] # c) - 1
    ELSE -1

\* The lines a bufio.Scanner yields, each after strings.TrimSpace.
Lines(content) ==
    LET raw == Split(content, "\n") IN [i \in 1..Len(raw) |-> TrimSpace(raw[i])]

\* The first line with the given prefix, 0 if there is none.
FirstWithPrefix(lines, prefix) ==
    IF \E i \in 1..Len(lines) : HasPrefix(lines[i], prefix)
    THEN CHOOSE i \in 1..Len(lines) :
            HasPrefix(lines[i], prefix) /\ \A j \in 1..(i - 1) : ~HasPrefix(lines[j], prefix)
    ELSE 0

StrGo == <<"g", "o", " ">>
StrJavaEq == <<"j", "a", "v", "a", "=">>

\* parseGoMod(content): the text after "go " on the first such line
parseGoMod(content) ==
    LET lines == Lines(content)
        i == FirstWithPrefix(lines, StrGo)
    IN IF i = 0 THEN <<>> ELSE TrimPrefix(lines[i], StrGo)

\* parseSdkmanrc(content, langName): for java, the text after "java=" up to
\* the first "."
parseSdkmanrc(content, langName) ==
    IF langName # "java" THEN <<>>
    ELSE LET lines == Lines(content)
             i == FirstWithPrefix(lines, StrJavaEq)
         IN IF i = 0 THEN <<>>
            ELSE LET version == TrimPrefix(lines[i], StrJavaEq)
                     idx == Index(version, ".")
                 IN IF idx > 0 THEN SubSeq(version, 1, idx) ELSE version

\* readVersionFile(path, langName): "" when the file cannot be read
readVersionFile(tree, path, langName) ==
    LET file == tree[path.dir][path.name]
        content == TrimSpace(file.data)
    IN IF ~file.exists THEN <<>>
       ELSE CASE path.name = "go.mod" -> parseGoMod(content)
              [] path.name = ".sdkmanrc" -> parseSdkmanrc(content, langName)
              [] OTHER -> TrimPrefix(Split(content, "\n")[1], <<"v">>)

\* A declaration file counts whatever it yields.
VersionFoundAlways(version) == TRUE

\* if version := readVersionFile(...); version != ""
VersionFound(version) == version # <<>>

NoDetection == [found |-> FALSE, Language |-> "", Version |-> <<>>, Source |-> FilePath(1, "")]
DetectedVersion(l, version, source) ==
    [found |-> TRUE, Language |-> l, Version |-> version, Source |-> source]

RECURSIVE SearchDown(_, _, _, _, _)
\* The walk taken from the root toward the start directory.
SearchDown(tree, l, versionFile, currentDir, startDir) ==
    LET version == readVersionFile(tree, FilePath(currentDir, versionFile), l)
    IN IF VersionFound(version)
       THEN DetectedVersion(l, version, FilePath(currentDir, versionFile))
       ELSE IF currentDir = startDir THEN NoDetection
       ELSE SearchDown(tree, l, versionFile, currentDir + 1, startDir)

\* The search for one file name, taken root first.
SearchUpFromRoot(tree, l, versionFile, currentDir) ==
    SearchDown(tree, l, versionFile, 1, currentDir)

RECURSIVE SearchUp(_, _, _, _)
\* The inner loop of detectForLanguage: one file name, from currentDir up to
\* the root.
SearchUp(tree, l, versionFile, currentDir) ==
    LET version == readVersionFile(tree, FilePath(currentDir, versionFile), l)
    IN IF VersionFound(version)
       THEN DetectedVersion(l, version, FilePath(currentDir, versionFile))
       ELSE IF Dir(currentDir) = currentDir THEN NoDetection
       ELSE SearchUp(tree, l, versionFile, Dir(currentDir))

RECURSIVE NearestDirFirst(_, _, _)
\* Detection that tries every file name in a directory before its parent.
NearestDirFirst(tree, dir, l) ==
    LET names == VersionFiles(l)
        hit(i) == VersionFound(readVersionFile(tree, FilePath(dir, names[i]), l))
    IN IF \E i \in 1..Len(names) : hit(i)
       THEN LET i == CHOOSE k \in 1..Len(names) : hit(k) /\ \A j \in 1..(k - 1) : ~hit(j)
            IN DetectedVersion(l, readVersionFile(tree, FilePath(dir, names[i]), l),
                               FilePath(dir, names[i]))
       ELSE IF Dir(dir) = dir THEN NoDetection
       ELSE NearestDirFirst(tree, Dir(dir), l)

\* detectForLanguage(dir, lang): the outer loop over the file names
detectForLanguage(tree, dir, l) ==
    LET names == VersionFiles(l)
        hit(i) == SearchUp(tree, l, names[i], dir).found
    IN IF \E i \in 1..Len(names) : hit(i)
       THEN SearchUp(tree, l, names[CHOOSE k \in 1..Len(names) :
                                       hit(k) /\ \A j \in 1..(k - 1) : ~hit(j)], dir)
       ELSE NoDetection

\* What a declaration file of the given name can hold.
FileContents(versionFile) ==
    CASE versionFile = ".java-version" -> {<<"1", "7">>, <<" ", "v", "2", "1", "\n">>, <<>>}
      [] versionFile = ".sdkmanrc" -> {<<"j", "a", "v", "a", "=", "1", "7", ".", "0", ".", "9", "-", "t", "e", "m">>, <<"j", "a", "v", "a", "=">>, <<"x", "=", "1", "\n", "j", "a", "v", "a", "=", "2", "1">>}
      [] versionFile = ".go-version" -> {<<"1", ".", "2", "1">>, <<"v">>}
      [] versionFile = "go.mod" -> {<<"m", "o", "d", "u", "l", "e", " ", "m", "\n", "g", "o", " ", "1", ".", "2", "2">>, <<"m", "o", "d", "u", "l", "e", " ", "m">>}

\* One directory of a project: each declaration file of the tool is absent
\* or present.
Directories(l) ==
    {d \in [{VersionFiles(l)[i] : i \in 1..Len(VersionFiles(l))} ->
               [exists : BOOLEAN,
                data : UNION {FileContents(VersionFiles(l)[i]) \cup {<<>>} :
                                  i \in 1..Len(VersionFiles(l))}]] :
        \A n \in DOMAIN d :
            IF d[n].exists THEN d[n].data \in FileContents(n) ELSE d[n] = NoFile}

\* The chain of directories from the root (first) to the start directory.
Trees(l) == UNION {[1..n -> Directories(l)] : n \in 1..MaxDepth}

DetInit ==
    /\ fs = [l \in Tools |-> [current |-> NoLink, versions |-> [v \in VersionKeys |-> NoDir]]]
    /\ cfg = [l \in ConfigLangs |-> ""]
    /\ disk = [l \in ConfigLangs |-> ""]
    /\ pc = "idle"
    /\ call = NoCall
    /\ result = "none"
    /\ lastUse = [l \in Tools |-> ""]
    /\ dl = [pc |-> "off"]
    /\ env = [pc |-> "off"]
    /\ vm = [pc |-> "off"]
    /\ pvd = [pc |-> "off"]
    /\ zip = [pc |-> "off"]
    /\ \E l \in DetectTools : \E tree \in Trees(l) :
          det = [pc |-> "call", lang |-> l, tree |-> tree, dir |-> Len(tree),
                 out |-> NoDetection]

\* dv := detectForLanguage(dir, lang)
DetCall ==
    /\ det.pc = "call"
    /\ det' = [det EXCEPT !.pc = "done", !.out = detectForLanguage(det.tree, det.dir, det.lang)]
    /\ UNCHANGED <<fs, cfg, disk, pc, call, result, lastUse, dl, env, vm, pvd, zip>>

DetNext == DetCall

SpecDet == DetInit /\ [][DetNext]_vars

----------------------------------------------------------------------------
(* version: extractZip                                                     *)

\* The most entries an archive holds.
MaxEntries == 2

\* Paths are sequences of components below the filesystem root.  The install
\* directory handed to extractZip, which InstallWithDist has created.
DestPath == <<<<"h">>, <<"d">>>>

\* Entry names an archive can carry: directories, files, parent references and
\* an absolute name.
EntryNames ==
    {<<"a", "/">>,
     <<"a", "/", "f">>,
     <<"a", "/", "b", "/", "f">>,
     <<"f">>,
     <<".", ".", "/", "e">>,
     <<"a", "/", ".", ".", "/", ".", ".", "/", "e">>,
     <<"/", "e">>,
     <<"a", "/", ".", ".", "/", "f">>}

\* The archives: up to MaxEntries entries, in the order of the central directory.
Archives == UNION {[1..n -> EntryNames] : n \in 0..MaxEntries}

RECURSIVE CleanOnto(_, _)
\* filepath.Clean of base followed by the components: "" and "." dropped,
\* ".." removes the component before it (none is left to remove at the root).
CleanOnto(base, comps) ==
    IF comps = <<>> THEN base
    ELSE LET c == Head(comps) IN
         IF c = <<>> \/ c = <<".">> THEN CleanOnto(base, Tail(comps))
         ELSE IF c = <<".", ".">>
         THEN CleanOnto(IF base = <<>> THEN base ELSE SubSeq(base, 1, Len(base) - 1),
                        Tail(comps))
         ELSE CleanOnto(Append(base, c), Tail(comps))

\* filepath.Join(destPath, name)
filepathJoin(destPath, name) == CleanOnto(destPath, Split(name, "/"))

\* filepath.Dir(fpath)
filepathDir(fpath) == IF fpath = <<>> THEN fpath ELSE SubSeq(fpath, 1, Len(fpath) - 1)

\* f.FileInfo().IsDir(): archive/zip marks a name that ends in "/"
IsDirEntry(name) == HasSuffix(name, <<"/">>)

\* The common prefix extractZip strips: the first entry's name up to its
\* first "/", when every entry's name starts with it.
commonPrefix(files) ==
    IF Len(files) = 0 THEN <<>>
    ELSE LET first == files[1]
             idx == Index(first, "/")
             prefix == SubSeq(first, 1, idx + 1)
         IN IF idx > 0 /\ \A i \in 1..Len(files) : HasPrefix(files[i], prefix)
            THEN prefix
            ELSE <<>>

\* The directories that exist before the extraction: destPath and above.
Existing(destPath) == {SubSeq(destPath, 1, k) : k \in 0..Len(destPath)}

\* os.MkdirAll(path): the directories it creates
MkdirAll(destPath, path) == {SubSeq(path, 1, k) : k \in 1..Len(path)} \ Existing(destPath)

ZipInit ==
    /\ fs = [l \in Tools |-> [current |-> NoLink, versions |-> [v \in VersionKeys |-> NoDir]]]
    /\ cfg = [l \in ConfigLangs |-> ""]
    /\ disk = [l \in ConfigLangs |-> ""]
    /\ pc = "idle"
    /\ call = NoCall
    /\ result = "none"
    /\ lastUse = [l \in Tools |-> ""]
    /\ dl = [pc |-> "off"]
    /\ env = [pc |-> "off"]
    /\ vm = [pc |-> "off"]
    /\ pvd = [pc |-> "off"]
    /\ det = [pc |-> "off"]
    /\ \E archive \in Archives :
          zip = [pc |-> "open",
                 files |-> archive,        \* r.File, by name
                 destPath |-> DestPath,
                 prefix |-> <<>>,
                 i |-> 1,                  \* the entry the loop is at
                 created |-> {},           \* paths extractZip has created
                 err |-> "none"]

\* zip.OpenReader and the search for the common prefix
ZipOpen ==
    /\ zip.pc = "open"
    /\ \E opened \in BOOLEAN :
          zip' = IF opened
                 THEN [zip EXCEPT !.pc = "loop", !.prefix = commonPrefix(zip.files)]
                 ELSE [zip EXCEPT !.pc = "done", !.err = "open_reader"]
    /\ UNCHANGED <<fs, cfg, disk, pc, call, result, lastUse, dl, env, vm, pvd, det>>

\* One pass of the loop over r.File
ZipEntry ==
    /\ zip.pc = "loop"
    /\ zip.i <= Len(zip.files)
    /\ LET f == zip.files[zip.i]
           name == IF zip.prefix # <<>> THEN TrimPrefix(f, zip.prefix) ELSE f
           fpath == filepathJoin(zip.destPath, name)
           next == [zip EXCEPT !.i = @ + 1]
       IN IF name = <<>>
          THEN zip' = next
          ELSE IF IsDirEntry(f)
          THEN zip' = [next EXCEPT !.created = @ \cup MkdirAll(zip.destPath, fpath)]
          ELSE \E fault \in {"none", "mkdir", "create", "copy"} :
                  zip' = CASE fault = "mkdir" ->
                                [zip EXCEPT !.pc = "done", !.err = "mkdir"]
                           [] fault = "create" ->
                                [zip EXCEPT !.pc = "done", !.err = "create",
                                            !.created = @ \cup MkdirAll(zip.destPath,
                                                                        filepathDir(fpath))]
                           [] fault = "copy" ->
                                [zip EXCEPT !.pc = "done", !.err = "copy",
                                            !.created = @ \cup MkdirAll(zip.destPath, fpath)]
                           [] OTHER ->
                                [next EXCEPT !.created = @ \cup MkdirAll(zip.destPath, fpath)]
    /\ UNCHANGED <<fs, cfg, disk, pc, call, result, lastUse, dl, env, vm, pvd, det>>

\* return nil after the last entry
ZipReturn ==
    /\ zip.pc = "loop"
    /\ zip.i > Len(zip.files)
    /\ zip' = [zip EXCEPT !.pc = "done"]
    /\ UNCHANGED <<fs, cfg, disk, pc, call, result, lastUse, dl, env, vm, pvd, det>>

ZipNext == ZipOpen \/ ZipEntry \/ ZipReturn

SpecZip == ZipInit /\ [][ZipNext]_vars

----------------------------------------------------------------------------
(* Claims                                                                  *)

\* C1: whenever no Manager call is running, each tool's `current` alias either
\* does not exist or points to a version directory that exists and holds a
\* complete install.
C1_AliasPointsToCompleteInstall ==
    pc = "idle" =>
        \A l \in Tools :
            \/ fs[l].current = NoLink
            \/ fs[l].versions[fs[l].current] = "installed"

\* The failures of InstallWithDist that happen after MkdirAll(versionPath).
FaultsAfterMkdir == {"tmpfile", "request", "status", "create", "copy", "extract", "postinstall"}

\* C2: when InstallWithDist has returned an error from a step after the version
\* directory was created, the directory does not exist and ListInstalled does
\* not contain the version.
C2_FailedInstallLeavesNoDirectory ==
    (pc = "idle" /\ call.op = "Install" /\ call.fault \in FaultsAfterMkdir) =>
        /\ ~VersionDirExists(fs, call.lang, call.version)
        /\ call.version \notin ListInstalled(fs, call.lang)

\* C3: every step of a Use call leaves every version directory of every tool
\* as it was (existence and contents); Use changes only the alias and the
\* config record.
C3_UseLeavesVersionDirectories ==
    [][(pc # "idle" \/ call'.op = "Use") =>
          \A l \in Tools : fs'[l].versions = fs[l].versions]_vars

\* C3 witness: a Use has switched a tool from one version to another and the
\* version that was active before is still on disk.
C3_Switched ==
    /\ pc = "idle" /\ call.op = "Use" /\ result = "ok"
    /\ call.prev \notin {NoLink, call.version}
    /\ fs[call.lang].current = call.version
    /\ fs[call.lang].versions[call.prev] = "installed"

C5_GetCurrentIsLastSuccessfulUse ==
    pc = "idle" => \A l \in Tools : GetCurrent(fs, cfg, l) = lastUse[l]

\* C6: while Use runs on a tool that had an active version v1, the alias
\* resolves to v1 or to the requested version at every step.
C6_AliasNeverAbsentDuringSwitch ==
    (call.op = "Use" /\ result = "running" /\ call.prev # NoLink) =>
        fs[call.lang].current \in {call.prev, call.version}

\* C7: whenever no call is running and a tool's alias exists, the config
\* record's CurrentVersion of that tool equals the version the alias points to.
C7_ConfigRecordAgreesWithAlias ==
    pc = "idle" =>
        \A l \in Tools :
            fs[l].current # NoLink => ConfigCurrentVersion(cfg, l) = fs[l].current

\* C8: DownloadWithRetry against a server that always answers 500 makes exactly
\* MaxRetries + 1 attempts and returns an error; against one that always
\* answers 404 it makes exactly 1 attempt and returns an error.
C8_AttemptsOn500And404 ==
    dl.pc = "done" =>
        /\ dl.server = "always500" => (dl.attempts = dl.maxRetries + 1 /\ ~dl.ok)
        /\ dl.server = "always404" => (dl.attempts = 1 /\ ~dl.ok)

\* C8 witness: a call with retries configured has given up on a 500 server.
C8_GaveUpOn500 ==
    /\ dl.pc = "done" /\ dl.server = "always500"
    /\ dl.maxRetries >= 1 /\ dl.attempts = dl.maxRetries + 1

\* The last failure is an HTTP 4xx status other than 408 and 429.
Fatal4xx ==
    /\ dl.failKind = "status"
    /\ dl.failCode \in 400..499
    /\ dl.failCode \notin {StatusRequestTimeout, StatusTooManyRequests}

\* C9: after a failed attempt with retries remaining, the loop stops if and
\* only if the failure is an HTTP 4xx status other than 408 and 429.
C9_StopsOnlyOnFatal4xx ==
    dl.pc \in {"loop", "done"} =>
        /\ (dl.pc = "done" /\ ~dl.ok /\ dl.attempt < dl.maxRetries) => Fatal4xx
        /\ (dl.pc = "loop" /\ dl.failKind # "none") => ~Fatal4xx

\* C10: after an attempt whose digest differs from the expected one the file
\* at DestPath is gone; the attempt that follows sends no Range; and when all
\* MaxRetries + 1 attempts mismatched the call returns an error with no file.
C10_MismatchDeletesAndRestarts ==
    dl.pc \in {"loop", "done"} =>
        /\ dl.outcome = "mismatch" => ~dl.file.exists
        /\ dl.prevOutcome = "mismatch" => dl.range = 0
        /\ (dl.pc = "done" /\ dl.mismatches = dl.maxRetries + 1) =>
               (~dl.ok /\ ~dl.file.exists)

\* C10 witness: every attempt of a call with retries configured mismatched.
C10_AllMismatched ==
    /\ dl.pc = "done" /\ dl.maxRetries >= 1
    /\ dl.mismatches = dl.maxRetries + 1

\* C11: an attempt that completes, whatever prefix of the artifact an earlier
\* interrupted attempt left at DestPath (none, or its first k bytes), and
\* whether the server answered 206 with the rest, 200 with the whole body, or
\* 416 and then 200 to the request repeated without Range, leaves exactly the
\* artifact: the file one uninterrupted attempt produces.
C11_ResumeGivesTheSameFile ==
    (/\ dl.outcome = "ok"
     /\ dl.intact
     /\ dl.answer \in {<<StatusPartialContent>>, <<StatusOK>>,
                       <<StatusRequestedRangeNotSatisfiable, StatusOK>>})
        => dl.file = File(dl.content)

\* C11 witness: an attempt found k > 0 bytes left by an interrupted one, asked
\* for the rest, was answered 206 and completed.
C11_ResumedWith206 ==
    /\ dl.outcome = "ok" /\ dl.prevOutcome = "error"
    /\ dl.range > 0
    /\ dl.answer = <<StatusPartialContent>>
    /\ dl.file = File(dl.content)

\* C12: a Use with `global` whose alias switch and config update succeeded
\* returns nil (success) even when writing the environment variables failed.
C12_PersistenceFailureIsSoft ==
    (pc = "idle" /\ call.op = "Use" /\ call.global /\ call.fault = "env")
        => result = "ok"

\* C13: in a setUserEnvVar call of the Windows build the methods attempted
\* are an initial part of registry, pwsh, powershell, setx, in that order; every
\* method attempted before another one failed to write or failed the
\* read-back check, so nothing is attempted after the first verified method;
\* and the call returns nil exactly when some method was verified (having
\* gone through all four otherwise).
C13_FallbackChainOrder ==
    (env.pc \in {"try", "idle"} /\ env.goos = "windows") =>
        /\ Len(env.tried) <= Len(Methods)
        /\ \A i \in 1..Len(env.tried) : env.tried[i].method = Methods[i]
        /\ \A i \in 1..(Len(env.tried) - 1) : ~env.tried[i].verified
        /\ env.ret = "nil" => \E i \in 1..Len(env.tried) : env.tried[i].verified
        /\ env.ret = "error" =>
              /\ \A i \in 1..Len(env.tried) : ~env.tried[i].verified
              /\ Len(env.tried) = Len(Methods)

\* C13 witness: the call returned nil through setx, after a method that wrote
\* but was not read back and a method that could not write.
C13_VerifiedBySetx ==
    /\ env.pc = "idle" /\ env.ret = "nil"
    /\ env.method = "setx"
    /\ Len(env.tried) = Len(Methods)
    /\ env.tried[Len(Methods)].verified
    /\ \E i, j \in 1..(Len(Methods) - 1) :
          /\ env.tried[i].wrote /\ ~env.tried[i].verified
          /\ ~env.tried[j].wrote

\* C14: once some setUserEnvVar call for a variable has returned nil, every
\* startup file holds exactly one entry for that variable, however many such
\* calls followed and whatever values they carried.
C14_OneProfileEntryPerVariable ==
    env.pc = "idle" =>
        \A n \in env.written : \A p \in DOMAIN env.files :
            EntriesFor(env.goos, env.files[p], n) = 1

\* C15: every step of a Use call gives the result, the alias and the config
\* record it would give with any other set of installed versions of the
\* tool's dependencies, and leaves the dependencies as they are.
C15_DependencyCheckNeverBlocks ==
    [][\A d \in Dependencies(call'.lang) :
       \A alt \in [VersionKeys -> {NoDir, "installed"}] :
          LET f == [fs EXCEPT ![d].versions = alt]
              l == call'.lang
              v == call'.version
          IN /\ (pc = "idle" /\ call'.op = "Use") => result' = UseEntry(f, l, v)
             /\ pc = "use_remove" => fs'[l] = removeJunction(f, l)[l]
             /\ (pc = "use_create" /\ pc' = "use_config") =>
                    fs'[l] = createJunction(f, l, v)[l]
             /\ (pc = "use_create" /\ pc' = "idle") => fs'[l] = f[l]
             /\ pc = "use_config" =>
                    /\ cfg' = SetCurrentVersionMem(cfg, l, v)
                    /\ fs'[l] = f[l]
             /\ fs'[d] = fs[d]
      ]_vars

\* C15 witness: a Use of mill returned nil and switched the alias although no
\* version of java, its dependency, was installed (the warning was printed).
C15_UsedWithoutDependency ==
    /\ pc = "idle" /\ result = "ok"
    /\ call.op = "Use" /\ call.warned
    /\ Dependencies(call.lang) # {}
    /\ \A d \in Dependencies(call.lang) : ListInstalled(fs, d) = {}
    /\ fs[call.lang].current = call.version

----------------------------------------------------------------------------
(* Claims on findBestMatch                                                 *)

\* The expression as the matcher reads it: without its leading "v".
Stripped(expression) == TrimPrefix(expression, <<"v">>)

\* The prefix of an expression: without leading "v" and wildcard suffix.
PrefixOf(expression) ==
    LET e == Stripped(expression) IN
    IF \E w \in Wildcards : HasSuffix(e, w)
    THEN SubSeq(e, 1, Len(e) - 2)
    ELSE e

EndsInWildcard(expression) == \E w \in Wildcards : HasSuffix(Stripped(expression), w)

\* The number of dot-separated components of an expression.
Components(expression) == Len(Split(Stripped(expression), "."))

IsMember(v, L) == \E i \in 1..Len(L) : L[i] = v

\* The candidate set: the versions equal to the prefix, or starting with
\* prefix + "." or prefix + "-".
Candidates(prefix, L) ==
    {L[i] : i \in {k \in 1..Len(L) : \/ L[k] = prefix
                                     \/ HasPrefix(L[k], prefix \o <<".">>)
                                     \/ HasPrefix(L[k], prefix \o <<"-">>)}}

\* No known version matches: no candidate, and no version whose first
\* component is the prefix.
NoKnownMatch(expression, L) ==
    /\ Candidates(PrefixOf(expression), L) = {}
    /\ \A i \in 1..Len(L) : Split(L[i], ".")[1] # PrefixOf(expression)

\* A component as an integer, a component that is not a number counted as 0.
NumericOrZero(part) ==
    IF part # <<>> /\ \A i \in 1..Len(part) : IsDigit(part[i]) THEN ScanDigits(part, 0) ELSE 0

\* a is strictly greater than b, comparing component by component with
\* NumericOrZero.
RECURSIVE GreaterFrom(_, _, _)
GreaterFrom(aParts, bParts, i) ==
    IF i > Len(aParts) /\ i > Len(bParts) THEN FALSE
    ELSE LET aNum == IF i <= Len(aParts) THEN NumericOrZero(aParts[i]) ELSE 0
             bNum == IF i <= Len(bParts) THEN NumericOrZero(bParts[i]) ELSE 0
         IN IF aNum # bNum THEN aNum > bNum ELSE GreaterFrom(aParts, bParts, i + 1)
StrictlyGreater(a, b) == GreaterFrom(Split(a, "."), Split(b, "."), 1)

\* C16: for a member v of the list of known versions, findBestMatch(v, L)
\* returns v and no error, also when other members start with v + ".".
C16_ExactMatchShortCircuits ==
    (vm.pc = "done" /\ IsMember(vm.expression, vm.versions))
        => vm.out = Found(vm.expression)

\* C16 witness: the expression is a member, the list also holds a greater
\* version that has it as dotted prefix, and the member itself was returned.
C16_MemberWithLongerVersions ==
    /\ vm.pc = "done"
    /\ IsMember(vm.expression, vm.versions)
    /\ \E i \in 1..Len(vm.versions) :
          /\ HasPrefix(vm.versions[i], vm.expression \o <<".">>)
          /\ compareVersions(vm.versions[i], vm.expression) > 0
    /\ vm.out = Found(vm.expression)

\* C17 as stated: when the expression (leading "v" stripped) is not an exact
\* member of L and the candidate set is not empty, findBestMatch returns a
\* candidate, and no candidate is strictly greater when components are
\* compared as integers with every non-numeric component counted as 0.
C17_NoGreaterCandidateCountingNonNumericAsZero ==
    (/\ vm.pc = "done"
     /\ ~IsMember(Stripped(vm.expression), vm.versions)
     /\ Candidates(PrefixOf(vm.expression), vm.versions) # {})
        => /\ ~vm.out.err
           /\ vm.out.version \in Candidates(PrefixOf(vm.expression), vm.versions)
           /\ \A c \in Candidates(PrefixOf(vm.expression), vm.versions) :
                 ~StrictlyGreater(c, vm.out.version)

\* C17, amended: as stated, but with each component compared by the integer
\* its leading digits spell (0 when it has none), as compareVersions reads it.
C17_NoGreaterCandidate ==
    (/\ vm.pc = "done"
     /\ ~IsMember(Stripped(vm.expression), vm.versions)
     /\ Candidates(PrefixOf(vm.expression), vm.versions) # {})
        => /\ ~vm.out.err
           /\ vm.out.version \in Candidates(PrefixOf(vm.expression), vm.versions)
           /\ \A c \in Candidates(PrefixOf(vm.expression), vm.versions) :
                 compareVersions(c, vm.out.version) <= 0

\* C17 witness: the expression is no member, the first candidate of the list
\* is smaller than another one, and the greater one was returned.
C17_GreatestIsNotFirst ==
    /\ vm.pc = "done"
    /\ ~IsMember(Stripped(vm.expression), vm.versions)
    /\ ~vm.out.err
    /\ vm.out.version \in Candidates(PrefixOf(vm.expression), vm.versions)
    /\ Len(vm.versions) >= 2
    /\ vm.versions[1] \in Candidates(PrefixOf(vm.expression), vm.versions)
    /\ compareVersions(vm.out.version, vm.versions[1]) > 0

\* C18 as stated: whenever findBestMatch(p, L) and findBestMatch(p + w, L),
\* w one of .x, .X, .*, both return without error, they return the same
\* version.
C18_WildcardSameAsPrefix ==
    (vm.pc = "done" /\ ~vm.out.err) =>
        \A w \in Wildcards :
            LET o == findBestMatch(vm.expression \o w, vm.versions)
            IN ~o.err => o.version = vm.out.version

\* C18, amended: for a prefix p that does not itself end in a wildcard, the
\* three wildcard forms of p give the same result; and when p (leading "v"
\* stripped) is not a member of L, that result, when both are without error,
\* is the version findBestMatch(p, L) returns.
C18_WildcardSameAsPrefixUnlessMember ==
    (vm.pc = "done" /\ ~EndsInWildcard(vm.expression)) =>
        /\ \A w1, w2 \in Wildcards :
              findBestMatch(vm.expression \o w1, vm.versions)
                  = findBestMatch(vm.expression \o w2, vm.versions)
        /\ (~vm.out.err /\ ~IsMember(Stripped(vm.expression), vm.versions)) =>
              \A w \in Wildcards :
                  LET o == findBestMatch(vm.expression \o w, vm.versions)
                  IN ~o.err => o.version = vm.out.version

\* C18 witness: a prefix that is no member has two candidates, and the call
\* and its wildcard forms returned the greater one.
C18_PrefixAndWildcardAgree ==
    /\ vm.pc = "done" /\ ~vm.out.err
    /\ ~EndsInWildcard(vm.expression)
    /\ ~IsMember(Stripped(vm.expression), vm.versions)
    /\ Cardinality(Candidates(PrefixOf(vm.expression), vm.versions)) >= 2
    /\ \A w \in Wildcards :
          findBestMatch(vm.expression \o w, vm.versions) = Found(vm.out.version)

\* C19 as stated: when no known version matches, an expression with 2 or 3
\* dot-separated components, or one ending in a wildcard, gets the not-found
\* error and no version.
C19_TwoOrThreeComponentsNotFound ==
    (/\ vm.pc = "done"
     /\ NoKnownMatch(vm.expression, vm.versions)
     /\ (Components(vm.expression) \in {2, 3} \/ EndsInWildcard(vm.expression)))
        => vm.out = NotFound

\* C19, amended: when no known version matches, an expression with exactly 2
\* dot-separated components, or one ending in a wildcard, gets the not-found
\* error and no version.
C19_TwoComponentsNotFound ==
    (/\ vm.pc = "done"
     /\ NoKnownMatch(vm.expression, vm.versions)
     /\ (Components(vm.expression) = 2 \/ EndsInWildcard(vm.expression)))
        => vm.out = NotFound

\* C19 witness: a two-component expression without wildcard matched nothing
\* in a list that is not empty, and the call returned the error.
C19_TwoComponentsUnmatched ==
    /\ vm.pc = "done"
    /\ vm.versions # <<>>
    /\ NoKnownMatch(vm.expression, vm.versions)
    /\ Components(vm.expression) = 2 /\ ~EndsInWildcard(vm.expression)
    /\ vm.out = NotFound

\* C20: when no known version matches, an expression without wildcard that
\* has one component, or three or more, is returned as it is but for its
\* leading "v", without error.
C20_CompleteLookingPassesThrough ==
    (/\ vm.pc = "done"
     /\ NoKnownMatch(vm.expression, vm.versions)
     /\ ~EndsInWildcard(vm.expression)
     /\ Components(vm.expression) # 2)
        => vm.out = Found(Stripped(vm.expression))

\* C20 witness: a three-component expression with a leading "v" matched
\* nothing in a list that is not empty and came back without the "v".
C20_DottedPassedThroughWithoutV ==
    /\ vm.pc = "done"
    /\ vm.versions # <<>>
    /\ NoKnownMatch(vm.expression, vm.versions)
    /\ Components(vm.expression) = 3
    /\ HasPrefix(vm.expression, <<"v">>)
    /\ vm.out = Found(Stripped(vm.expression))

----------------------------------------------------------------------------
(* Claims on ParseVersionAndDistribution                                   *)

\* The position of the last "-" of s, 0 when s has none.
LastDash(s) ==
    IF \E i \in 1..Len(s) : s[i] = "-"
    THEN CHOOSE i \in 1..Len(s) : s[i] = "-" /\ \A j \in (i + 1)..Len(s) : s[j] # "-"
    ELSE 0

\* The text after the last "-" of s.
AfterLastDash(s) == SubSeq(s, LastDash(s) + 1, Len(s))

\* The text before the last "-" of s.
BeforeLastDash(s) == SubSeq(s, 1, LastDash(s) - 1)

\* s has a "-" and the token after its last "-" is, letter case aside, an
\* entry of the alias table.
HasKnownSuffix(s) ==
    /\ LastDash(s) > 0
    /\ \E i \in 1..Len(distSuffixes) :
          /\ Len(AfterLastDash(s)) = Len(distSuffixes[i])
          /\ \A k \in 1..Len(distSuffixes[i]) :
                LowerChar(AfterLastDash(s)[k]) = distSuffixes[i][k]

\* C21: ParseVersionAndDistribution(s) returns (the text before the last "-",
\* the lower-cased last token) exactly when the token after the last "-" is,
\* case-insensitively, an entry of the alias table; for every other s, an
\* unrecognized suffix included, it returns (s, "").
C21_SplitsOffKnownSuffixOnly ==
    pvd.pc = "done" =>
        IF HasKnownSuffix(pvd.version)
        THEN /\ pvd.out.ver = BeforeLastDash(pvd.version)
             /\ pvd.out.dist \in {distSuffixes[i] : i \in 1..Len(distSuffixes)}
             /\ Len(pvd.out.dist) = Len(AfterLastDash(pvd.version))
             /\ \A k \in 1..Len(pvd.out.dist) :
                   pvd.out.dist[k] = LowerChar(AfterLastDash(pvd.version)[k])
        ELSE pvd.out = [ver |-> pvd.version, dist |-> <<>>]

\* An upper-case suffix after a version that itself holds a "-" has been
\* split off.
C21_UpperCaseSuffixSplit ==
    /\ pvd.pc = "done"
    /\ pvd.version = <<"2", "1", "-", "b", "e", "t", "a", "-", "T", "E", "M">>
    /\ pvd.out = [ver |-> <<"2", "1", "-", "b", "e", "t", "a">>, dist |-> <<"t", "e", "m">>]

----------------------------------------------------------------------------
(* Claims on detection                                                     *)

\* The declaration-file names of the tool of the call, and the directories of
\* its walk (the start directory and its ancestors).
DetNames == VersionFiles(det.lang)
WalkDirs == 1..det.dir

\* The declaration file of the i-th name exists in directory d.
Present(d, i) == det.tree[d][DetNames[i]].exists

\* What the declaration file of the i-th name in directory d yields.
ValueAt(d, i) == readVersionFile(det.tree, FilePath(d, DetNames[i]), det.lang)

\* That file yields a version.
Yields(d, i) == ValueAt(d, i) # <<>>

\* C22 as stated: when a file of some name exists in a directory of the walk
\* and no file of a higher-priority name exists in the walk, the detection
\* result is the value of a file of that name, whatever is in closer
\* directories.
C22_FirstPresentNameWins ==
    det.pc = "done" =>
        \A i \in 1..Len(DetNames) :
            (/\ \E d \in WalkDirs : Present(d, i)
             /\ \A j \in 1..(i - 1) : \A d \in WalkDirs : ~Present(d, j))
            => /\ det.out.found
               /\ det.out.Source.name = DetNames[i]
               /\ det.out.Source.dir \in WalkDirs
               /\ det.out.Version = ValueAt(det.out.Source.dir, i)

\* C22: when a file of some name yielding a version exists in a directory of
\* the walk and no file of a higher-priority name yields a version in the
\* walk, the detection result is the value of the nearest file of that name
\* that yields one, whatever is in closer directories.
C22_FirstYieldingNameWins ==
    det.pc = "done" =>
        \A i \in 1..Len(DetNames) :
            (/\ \E d \in WalkDirs : Yields(d, i)
             /\ \A j \in 1..(i - 1) : \A d \in WalkDirs : ~Yields(d, j))
            => /\ det.out.found
               /\ det.out.Source.name = DetNames[i]
               /\ det.out.Source.dir \in WalkDirs
               /\ Yields(det.out.Source.dir, i)
               /\ \A d \in WalkDirs : d > det.out.Source.dir => ~Yields(d, i)
               /\ det.out.Version = ValueAt(det.out.Source.dir, i)

\* The first name was detected in an ancestor although a file of the second
\* name yields a version in a closer directory.
C22_FartherHigherPriorityWon ==
    /\ det.pc = "done"
    /\ det.out.found
    /\ det.out.Source.name = DetNames[1]
    /\ \E d \in WalkDirs : d > det.out.Source.dir /\ Yields(d, 2)

\* C23 as stated: when declaration files of the tool are present in a
\* directory and in one of its ancestors, and none in the directories below
\* it down to the start directory, the result is a file of that directory.
C23_NearestDirectoryWins ==
    det.pc = "done" =>
        \A d \in WalkDirs : \A a \in 1..(d - 1) :
            (/\ \E i \in 1..Len(DetNames) : Present(d, i)
             /\ \E i \in 1..Len(DetNames) : Present(a, i)
             /\ \A b \in (d + 1)..det.dir : \A i \in 1..Len(DetNames) : ~Present(b, i))
            => /\ det.out.found
               /\ det.out.Source.dir = d
               /\ \E i \in 1..Len(DetNames) :
                     /\ det.out.Source.name = DetNames[i]
                     /\ det.out.Version = ValueAt(d, i)

\* C23: nearest wins per file name: when files of one name yield a version
\* in a directory and in one of its ancestors, none of that name yields one
\* below the directory, and no higher-priority name yields one in the walk,
\* the result is the directory's file and its value.
C23_NearestOfTheNameWins ==
    det.pc = "done" =>
        \A i \in 1..Len(DetNames) : \A d \in WalkDirs : \A a \in 1..(d - 1) :
            (/\ Yields(d, i)
             /\ Yields(a, i)
             /\ \A b \in (d + 1)..det.dir : ~Yields(b, i)
             /\ \A j \in 1..(i - 1) : \A b \in WalkDirs : ~Yields(b, j))
            => det.out = DetectedVersion(det.lang, ValueAt(d, i), FilePath(d, DetNames[i]))

\* Detection started below a directory whose file and whose ancestor's file
\* of the same name hold different versions, and reported the directory's.
C23_DescendantOverrodeAncestor ==
    /\ det.pc = "done"
    /\ det.out.found
    /\ det.out.Source.dir < det.dir
    /\ \E i \in 1..Len(DetNames) : \E a \in 1..(det.out.Source.dir - 1) :
          /\ det.out.Source.name = DetNames[i]
          /\ Yields(a, i)
          /\ ValueAt(a, i) # det.out.Version

\* C29: a DetectedVersion never carries an empty version, and a declaration
\* file that yields none does not end the search: detection finds a version
\* exactly when some declaration file of the tool in the walk yields one.
C29_EmptyVersionIsNotFound ==
    det.pc = "done" =>
        /\ det.out.found => det.out.Version # <<>>
        /\ det.out.found <=> \E d \in WalkDirs : \E i \in 1..Len(DetNames) : Yields(d, i)

\* The start directory holds a file of the first name that yields nothing,
\* and the version was taken from a file of the second name in an ancestor.
C29_SearchWentPastEmptyFile ==
    /\ det.pc = "done"
    /\ Present(det.dir, 1)
    /\ ~Yields(det.dir, 1)
    /\ det.out.found
    /\ det.out.Source.name = DetNames[2]
    /\ det.out.Source.dir < det.dir

----------------------------------------------------------------------------
(* Claims on already installed versions, failed Use and Uninstall          *)

\* C24: an InstallWithDist of a version whose directory already exists
\* returns the already-installed error, issues no download and leaves every
\* version directory as it was.
C24_InstallOverExistingRefused ==
    [][(/\ pc = "idle"
        /\ call'.op = "Install"
        /\ call'.lang \in Tools
        /\ VersionDirExists(fs, call'.lang, call'.version))
       => (/\ result' = "already_installed"
           /\ ~call'.fetched
           /\ fs' = fs)]_vars

\* An install of a version that is complete and active was refused.
C24_RefusedOverActiveVersion ==
    /\ pc = "idle" /\ call.op = "Install" /\ result = "already_installed"
    /\ fs[call.lang].versions[call.version] = "installed"
    /\ fs[call.lang].current = call.version

\* C25: whenever no call is running, GetCurrent of a tool is the empty string
\* or one of the tool's installed versions, and after an Uninstall of the
\* active version that returned nil it is the empty string.
C25_GetCurrentIsInstalledOrEmpty ==
    pc = "idle" =>
        /\ \A l \in Tools :
              GetCurrent(fs, cfg, l) \in {""} \cup ListInstalled(fs, l)
        /\ (call.op = "Uninstall" /\ result = "ok" /\ call.prev = call.version)
              => GetCurrent(fs, cfg, call.lang) = ""

\* C26: when a Use has returned an error, the tool's alias points to the
\* version that was active before the call.
C26_FailedUseKeepsAlias ==
    (/\ pc = "idle"
     /\ call.op = "Use"
     /\ call.lang \in Tools
     /\ result # "ok")
    => fs[call.lang].current = call.prev

----------------------------------------------------------------------------
(* Claims on the attempt count and the backoff of DownloadWithRetry        *)

\* C27: the attempt count in the error DownloadWithRetry returns is the
\* number of attempts it made, after the retries ran out and after a
\* non-retryable failure alike.
C27_ReportedCountIsAttemptsMade ==
    (dl.pc = "done" /\ ~dl.ok) => dl.reported = dl.attempts

\* C28: no wait before the first attempt, one wait before each retry and none
\* after the last attempt; the first wait is RetryDelay and each later wait is
\* twice the one before, so the k-th is RetryDelay * 2^(k-1).
C28_BackoffDoubles ==
    /\ Len(dl.waits) = (IF dl.attempts = 0 THEN 0 ELSE dl.attempts - 1)
    /\ Len(dl.waits) <= dl.maxRetries
    /\ \A k \in 1..Len(dl.waits) :
          dl.waits[k] = (IF k = 1 THEN dl.retryDelay ELSE 2 * dl.waits[k - 1])

\* Every attempt of a call with two retries failed, with waits of 2 and 4
\* seconds between them.
C28_WaitedTwoThenFour ==
    /\ dl.pc = "done" /\ ~dl.ok
    /\ dl.attempts = 3
    /\ dl.waits = <<2, 4>>

----------------------------------------------------------------------------
(* Claims on extractZip                                                    *)

\* C30: every file and directory extractZip creates lies inside destPath.
C30_ExtractionConfined ==
    \A p \in zip.created :
        Len(p) > Len(zip.destPath) /\ SubSeq(p, 1, Len(zip.destPath)) = zip.destPath

====
